---- MODULE Spec2Model ----
(***************************************************************************)
(* A model of the nvlist codec of pyzfs (libzfs_core/nvlist.py): the       *)
(* conversion of a Python dictionary to a native nvlist_t and back, with   *)
(* the management of the native allocations by nvlist_in and nvlist_out.   *)
(*                                                                         *)
(* Python values are tagged tuples <<type name, payload>>;  a dictionary   *)
(* is the sequence of its items in iteration order.  A native container    *)
(* is a record [id, pairs]: the address nvlist_alloc returned (0 is NULL)  *)
(* and the sequence of its pairs <<name, type suffix, payload>>.           *)
(*                                                                         *)
(* Spec is the codec.  LazySpec is the lazy opening and initialization of  *)
(* the native libraries by several threads (bindings/__init__.py and       *)
(* _initialize of libzfs_core.py).  CallSpec is one call of an operation   *)
(* on several targets, or of lzc_send, of libzfs_core.py, for each of the  *)
(* results the native call can report.  LazyFairSpec is LazySpec with the  *)
(* threads scheduled fairly.  CastSpec is one call of a cast helper of     *)
(* ctypes.py.  ListSpec is one listing by lzc_list or by the generator     *)
(* _list of _libzfs_core.py, with the pipe it opens.                       *)
(***************************************************************************)
EXTENDS Integers, Sequences, FiniteSets, TLC

VARIABLES
    pc_in,      \* where the nvlist_in generator stands
    pc_out,     \* where the nvlist_out generator stands
    props_in,   \* the dictionary given to nvlist_in
    nvlist,     \* nvlist_in's local nvlist: the container it allocated
    props_out,  \* the dictionary given to nvlist_out (the caller's object)
    nvlistp,    \* nvlist_out's nvlistp[0]
    exc,        \* the exception the caller observes, or NoExc
    st,         \* the native side: allocations, frees, call counter
    _inited,    \* LazyInit._inited
    _lock,      \* LazyInit._lock: the thread that holds it, 0 if none
    _lib,       \* LazyLibrary._lib of each library: None (0) or the handle of dlopen
    ll_lock,    \* LazyLibrary._lock of each library: the thread that holds it, 0 if none
    th,         \* the threads: where each stands in __getattr__, and its locals
    hist,       \* what the native side saw: calls of libzfs_core_init, of dlopen
    op,         \* a call of a function of libzfs_core.py: its arguments, what the native call reports
    res,        \* what that call did: returned, or raised
    lst         \* a listing: where it stands, its pipe descriptors, the calls of os.close

codecVars == <<pc_in, pc_out, props_in, nvlist, props_out, nvlistp, exc, st>>
initVars == <<_inited, _lock, _lib, ll_lock, th, hist>>
callVars == <<op, res, lst>>
nonCodecVars == <<initVars, callVars>>
vars == <<codecVars, initVars, callVars>>

(***************************************************************************)
(* Bounds of the model.                                                    *)
(***************************************************************************)
MaxLen == 2        \* longest list value
MaxLeaked == 0     \* a new top-level call starts with at most this many live containers
NThreads == 2      \* threads that use the library proxies
MaxAccess == 3     \* attribute accesses the threads make, all together
MaxTargets == 2    \* snapshots, bookmarks or holds that one call names
MaxFlags == 3      \* flags that one call of lzc_send lists
MaxOff == 1        \* how far from the limits of a C type the integers cast lie
MaxRecords == 2    \* records the kernel writes to the pipe of a listing

(***************************************************************************)
(* Python values.                                                          *)
(***************************************************************************)
PyNone == <<"NoneType", 0>>
PyBool(b) == <<"bool", b>>
PyStr(s) == <<"str", s>>
PyInt(n) == <<"int", n>>
PyFloat(n) == <<"float", n>>
CData(ctype, n) == <<"CData", <<ctype, n>> >>
PyList(elems) == <<"list", elems>>
PyDict(items) == <<"dict", items>>

TypeName(v) == v[1]
IsDict(v) == v[1] = "dict"
IsList(v) == v[1] = "list"
IsBasestring(v) == v[1] = "str"
IsBool(v) == v[1] = "bool"
IsNone(v) == v[1] = "NoneType"
IsCData(v) == v[1] = "CData"
\* isinstance(v, numbers.Integral): bool is a subclass of int
IsIntegral(v) == v[1] \in {"int", "bool"}

NoExc == <<"ok">>
TypeError(msg, names) == <<"TypeError", msg, names>>
MemoryError(msg) == <<"MemoryError", msg, <<>> >>
RuntimeError(msg) == <<"RuntimeError", msg, <<>> >>
OverflowError(suffix) == <<"OverflowError", "integer does not fit", <<suffix>> >>
IndexError == <<"IndexError", "list index out of range", <<>> >>
KeyError(typeid) == <<"KeyError", typeid, <<>> >>

NULL == 0
NullNvlist == [id |-> NULL, pairs |-> <<>>]

(***************************************************************************)
(* The type tables.                                                        *)
(***************************************************************************)
CTypes == {"uint8_t", "int8_t", "uint16_t", "int16_t", "uint32_t", "int32_t",
           "uint64_t", "int64_t", "boolean_t", "uchar_t"}

_type_to_suffix(ctype) ==
    CASE ctype = "uint8_t" -> "uint8"
      [] ctype = "int8_t" -> "int8"
      [] ctype = "uint16_t" -> "uint16"
      [] ctype = "int16_t" -> "int16"
      [] ctype = "uint32_t" -> "uint32"
      [] ctype = "int32_t" -> "int32"
      [] ctype = "uint64_t" -> "uint64"
      [] ctype = "int64_t" -> "int64"
      [] ctype = "boolean_t" -> "boolean"
      [] ctype = "uchar_t" -> "byte"

\* a lookup that ignores the table: every key gets the default
PropNameToTypeStrBug(key) ==
    "uint64"

\* _prop_name_to_type_str.get(key, "uint64")
_prop_name_to_type_str(key) ==
    CASE key = "rewind-request" -> "uint32"
      [] key = "type" -> "uint32"
      [] key = "N_MORE_ERRORS" -> "int32"
      [] key = "pool_context" -> "int32"
      [] OTHER -> "uint64"

ScalarSuffixes == {"boolean_value", "byte", "int8", "uint8", "int16", "uint16",
                   "int32", "uint32", "int64", "uint64", "string", "nvlist"}
ArraySuffixes == {"boolean_array", "byte_array", "int8_array", "uint8_array",
                  "int16_array", "uint16_array", "int32_array", "uint32_array",
                  "int64_array", "uint64_array", "string_array", "nvlist_array"}
\* the keys of the table of _type_info; "boolean" is DATA_TYPE_BOOLEAN
KnownTypeIds == {"boolean"} \cup ScalarSuffixes \cup ArraySuffixes

IsArrayType(typeid) == typeid \in ArraySuffixes

\* the element type of an array type, the type itself otherwise
ElemSuffix(suffix) ==
    CASE suffix = "boolean_array" -> "boolean_value"
      [] suffix = "byte_array" -> "byte"
      [] suffix = "int8_array" -> "int8"
      [] suffix = "uint8_array" -> "uint8"
      [] suffix = "int16_array" -> "int16"
      [] suffix = "uint16_array" -> "uint16"
      [] suffix = "int32_array" -> "int32"
      [] suffix = "uint32_array" -> "uint32"
      [] suffix = "int64_array" -> "int64"
      [] suffix = "uint64_array" -> "uint64"
      [] suffix = "string_array" -> "string"
      [] suffix = "nvlist_array" -> "nvlist"
      [] OTHER -> suffix

\* what cffi accepts for a C parameter of the type (an OverflowError otherwise);
\* the widths above 16 bits are cut to the values the model draws
FitsCType(suffix, n) ==
    CASE suffix \in {"uint8", "byte"} -> n >= 0 /\ n <= 255
      [] suffix = "int8" -> n >= -128 /\ n <= 127
      [] suffix = "uint16" -> n >= 0 /\ n <= 65535
      [] suffix = "int16" -> n >= -32768 /\ n <= 32767
      [] suffix \in {"uint32", "uint64", "boolean_value"} -> n >= 0
      [] OTHER -> TRUE

\* the integer cffi passes for a Python bool, int or integer CData
ToCInt(v) ==
    CASE IsBool(v) -> IF v[2] THEN 1 ELSE 0
      [] IsCData(v) -> v[2][2]
      [] OTHER -> v[2]

(***************************************************************************)
(* The order of a dictionary.  A dict of CPython 2 iterates over the slots *)
(* of its hash table: a key is in slot hash(key) & 7 while the table has   *)
(* its first size (up to five keys) and no two keys meet in a slot, as in  *)
(* all the dictionaries here.  The sequence of items of a PyDict is in     *)
(* this order.                                                             *)
(***************************************************************************)
\* hash(name) & 7 for the names that occur, by the string hash of CPython 2
\* LongSnap stands for "p/f@" and 252 letters x, LongTag for 256 letters t
LongSnap == "p/f@x..."
LongTag == "t..."

Slot(name) ==
    CASE name \in {"a", "y", "p/f", "q/f#b"} -> 0
      [] name \in {"x", "h", "N_MORE_ERRORS", "p/f#b", LongSnap} -> 1
      [] name \in {"c", "k", "pool_context"} -> 2
      [] name \in {"b", "rewind-request"} -> 3
      [] name \in {"e", "old", "type", "q/f@s"} -> 4
      [] name \in {"d", "p/f@s"} -> 5
      [] name = "n" -> 7

\* the slot of a key: the hash of a small integer is the integer
SlotOf(key) == IF key[1] = "int" THEN key[2] % 8 ELSE Slot(key[2])

\* the items after the insertion of a new key
PlaceItem(items, item) ==
    LET n == Cardinality({i \in 1..Len(items) : SlotOf(items[i][1]) <= SlotOf(item[1])})
    IN  SubSeq(items, 1, n) \o <<item>> \o SubSeq(items, n + 1, Len(items))

\* props[name] = val on a Python dictionary
SetItem(items, key, val) ==
    IF \E i \in 1..Len(items) : items[i][1] = key
    THEN [i \in 1..Len(items) |->
             IF items[i][1] = key THEN <<key, val>> ELSE items[i]]
    ELSE PlaceItem(items, <<key, val>>)

\* the dictionary a display {k1: v1, k2: v2, ...} builds, item by item
RECURSIVE DictLiteralFrom(_, _, _)
DictLiteralFrom(ins, i, items) ==
    IF i > Len(ins) THEN PyDict(items)
    ELSE DictLiteralFrom(ins, i + 1, SetItem(items, ins[i][1], ins[i][2]))
DictLiteral(ins) == DictLiteralFrom(ins, 1, <<>>)

(***************************************************************************)
(* The native side.  st.live holds the addresses of the allocated          *)
(* containers, st.freed those released since the running top-level call    *)
(* began, st.elems those allocated since then for the elements of a list   *)
(* of dictionaries; st.calls counts the native calls that report a status, *)
(* and the call numbered st.failAt reports a failure (0: none does).       *)
(***************************************************************************)
InitSt == [live |-> {}, freed |-> {}, elems |-> {}, allocs |-> 0, frees |-> 0,
           calls |-> 0, failAt |-> 0, dfree |-> FALSE, uaf |-> FALSE]

SetMax(S) == IF S = {} THEN 0 ELSE CHOOSE m \in S : \A x \in S : x <= m

\* the state a top-level call starts from: the containers still allocated stay
BeginCall(s, failAt) ==
    [InitSt EXCEPT !.live = s.live, !.failAt = failAt]

NativeFails(s) == s.calls + 1 = s.failAt

\* _lib.nvlist_alloc(nvlistp, 1, 0): [res, id, st]; nvlistp[0] keeps NULL on failure
nvlist_alloc(s) ==
    LET id == SetMax(s.live \cup s.freed) + 1
    IN  IF NativeFails(s)
        THEN [res |-> 12, id |-> NULL, st |-> [s EXCEPT !.calls = @ + 1]]
        ELSE [res |-> 0, id |-> id,
              st |-> [s EXCEPT !.calls = @ + 1, !.allocs = @ + 1,
                               !.live = @ \cup {id}]]

\* _lib.nvlist_free(nvlist)
nvlist_free(id, s) ==
    [s EXCEPT !.frees = @ + 1,
              !.dfree = @ \/ id \notin s.live,
              !.live = @ \ {id},
              !.freed = @ \cup {id}]

\* the pairs of a container after nvlist_add_*: with NV_UNIQUE_NAME a pair of
\* the same name is replaced
AddPair(pairs, pair) ==
    SelectSeq(pairs, LAMBDA p : p[1] # pair[1]) \o <<pair>>

\* _lib.nvlist_add_boolean(nvlist, name): the pair has no value
nvlist_add_boolean(nv, name, s) ==
    LET s1 == [s EXCEPT !.calls = @ + 1, !.uaf = @ \/ nv.id \notin s.live]
    IN  IF NativeFails(s)
        THEN [exc |-> NoExc, ret |-> 12, nvlist |-> nv, st |-> s1]
        ELSE [exc |-> NoExc, ret |-> 0,
              nvlist |-> [nv EXCEPT !.pairs = AddPair(@, <<name, "boolean", 0>>)],
              st |-> s1]

\* _lib.nvlist_add_<suffix>(nvlist, name, val): [exc, ret, nvlist, st].
\* nvlist_add_boolean takes no value: cffi refuses the call with three arguments.
\* cffi refuses an integer that does not fit the parameter's C type before the
\* native function runs; the native function copies val into the container.
nvlist_add(nv, name, suffix, val, s) ==
    LET ints == IF IsArrayType(suffix) THEN val ELSE <<val>>
        isInt == ElemSuffix(suffix) \notin {"string", "nvlist", "boolean"}
        fits == isInt => \A i \in 1..Len(ints) : FitsCType(ElemSuffix(suffix), ints[i])
        s1 == [s EXCEPT !.calls = @ + 1, !.uaf = @ \/ nv.id \notin s.live]
    IN  IF suffix = "boolean"
        THEN [exc |-> TypeError("nvlist_add_boolean expects 2 arguments", <<>>),
              ret |-> 0, nvlist |-> nv, st |-> s]
        ELSE IF ~fits
        THEN [exc |-> OverflowError(suffix), ret |-> 0, nvlist |-> nv, st |-> s]
        ELSE IF NativeFails(s)
        THEN [exc |-> NoExc, ret |-> 12, nvlist |-> nv, st |-> s1]
        ELSE [exc |-> NoExc, ret |-> 0,
              nvlist |-> [nv EXCEPT !.pairs = AddPair(@, <<name, suffix, val>>)],
              st |-> s1]

(***************************************************************************)
(* The encoder: _dict_to_nvlist, _nvlist_add_array and the part of         *)
(* nvlist_in that runs before its yield.  Each returns [exc, nvlist, st]:  *)
(* the exception raised (or NoExc), the target container and the native    *)
(* state.                                                                  *)
(***************************************************************************)
Result(e, nv, s) == [exc |-> e, nvlist |-> nv, st |-> s]

\* "if ret != 0: raise MemoryError(msg)" after a native attach call
CheckRet(a, s, msg) ==
    IF a.exc # NoExc THEN Result(a.exc, a.nvlist, s)
    ELSE IF a.ret # 0 THEN Result(MemoryError(msg), a.nvlist, s)
    ELSE Result(NoExc, a.nvlist, s)

RECURSIVE DictItems(_, _, _, _)

\* _dict_to_nvlist(props, nvlist)
_dict_to_nvlist(props, nv, s) == DictItems(props[2], 1, nv, s)

\* a setup that allocates a spare container before the one it fills
NvlistInSetupSpare(props, s) ==
    LET a == nvlist_alloc(nvlist_alloc(s).st)
    IN  IF a.res # 0
        THEN Result(MemoryError("nvlist_alloc failed"), NullNvlist, a.st)
        ELSE _dict_to_nvlist(props, [id |-> a.id, pairs |-> <<>>], a.st)

\* nvlist_in up to its yield: the allocation and the call of _dict_to_nvlist,
\* both before the try block
NvlistInSetup(props, s) ==
    LET a == nvlist_alloc(s)
    IN  IF a.res # 0
        THEN Result(MemoryError("nvlist_alloc failed"), NullNvlist, a.st)
        ELSE _dict_to_nvlist(props, [id |-> a.id, pairs |-> <<>>], a.st)

\* a value of an unsupported type passed over in silence
UnsupportedValueSkipped(v, nv, s) == Result(NoExc, nv, s)

\* "raise TypeError('Unsupported value type ' + type(v).__name__)"
UnsupportedValue(v, nv, s) ==
    Result(TypeError("Unsupported value type", <<TypeName(v)>>), nv, s)

\* a scan that takes the integer CData objects for integers too
FirstMismatchOfKinds(array) ==
    LET specimen == array[1]
        isInt(v) == IsIntegral(v) \/ (IsCData(v) /\ v[2][1] \in CTypes)
        bad == {i \in 2..Len(array) :
                   /\ ~(isInt(specimen) /\ isInt(array[i]))
                   /\ TypeName(array[i]) # TypeName(specimen)}
    IN  IF bad = {} THEN 0 ELSE CHOOSE i \in bad : \A j \in bad : i <= j

\* the index of the first element the homogeneity loop rejects, 0 if none
FirstMismatch(array) ==
    LET specimen == array[1]
        is_integer == IsIntegral(specimen)
        bad == {i \in 2..Len(array) :
                   /\ ~(is_integer /\ IsIntegral(array[i]))
                   /\ TypeName(array[i]) # TypeName(specimen)}
    IN  IF bad = {} THEN 0 ELSE CHOOSE i \in bad : \A j \in bad : i <= j

\* the loop of _nvlist_add_array over a list of dictionaries: one allocation
\* and one _dict_to_nvlist per element; [exc, c_array, pairs, st]
RECURSIVE AllocDictArray(_, _, _, _, _)
AllocDictArray(array, i, c_array, elems, s) ==
    IF i > Len(array)
    THEN [exc |-> NoExc, c_array |-> c_array, elems |-> elems, st |-> s]
    ELSE LET a == nvlist_alloc(s)
         IN  IF a.res # 0
             THEN [exc |-> MemoryError("nvlist_alloc failed"),
                   c_array |-> c_array, elems |-> elems, st |-> a.st]
             ELSE LET r == _dict_to_nvlist(array[i], [id |-> a.id, pairs |-> <<>>],
                                           [a.st EXCEPT !.elems = @ \cup {a.id}])
                      c2 == [c_array EXCEPT ![i] = a.id]
                  IN  IF r.exc # NoExc
                      THEN [exc |-> r.exc, c_array |-> c2, elems |-> elems, st |-> r.st]
                      ELSE AllocDictArray(array, i + 1, c2,
                                          Append(elems, r.nvlist.pairs), r.st)

RECURSIVE FreeDictArray(_, _, _)

\* the elements but the last are freed
FreeDictArrayButLast(c_array, i, s) ==
    IF i >= Len(c_array) THEN s
    ELSE FreeDictArray(c_array, i + 1,
                       IF c_array[i] # NULL THEN nvlist_free(c_array[i], s) ELSE s)

\* the finally block of the dictionary branch: every non-NULL element is freed
FreeDictArray(c_array, i, s) ==
    IF i > Len(c_array) THEN s
    ELSE FreeDictArray(c_array, i + 1,
                       IF c_array[i] # NULL THEN nvlist_free(c_array[i], s) ELSE s)

\* _nvlist_add_array(nvlist, key, array)
_nvlist_add_array(nv, key, array, s) ==
    IF Len(array) = 0 THEN Result(IndexError, nv, s)
    ELSE
    LET specimen == array[1]
        bad == FirstMismatch(array)
        ints == [i \in 1..Len(array) |-> ToCInt(array[i])]
        msg == "nvlist_add failed, err = %d"
    IN  IF bad # 0
        THEN Result(TypeError("Array has elements of different types",
                              <<TypeName(specimen), TypeName(array[bad])>>), nv, s)
        ELSE IF IsDict(specimen)
        THEN LET r == AllocDictArray(array, 1, [i \in 1..Len(array) |-> NULL], <<>>, s)
                 a == nvlist_add(nv, key, "nvlist_array", r.elems, r.st)
             IN  IF r.exc # NoExc
                 THEN Result(r.exc, nv, FreeDictArray(r.c_array, 1, r.st))
                 ELSE CheckRet(a, FreeDictArray(r.c_array, 1, a.st), msg)
        ELSE IF IsBasestring(specimen)
        THEN LET a == nvlist_add(nv, key, "string_array",
                                 [i \in 1..Len(array) |-> array[i][2]], s)
             IN  CheckRet(a, a.st, msg)
        ELSE IF IsBool(specimen)
        THEN LET a == nvlist_add(nv, key, "boolean_array", ints, s)
             IN  CheckRet(a, a.st, msg)
        ELSE IF IsIntegral(specimen)
        THEN LET suffix == _prop_name_to_type_str(key)
                 a == nvlist_add(nv, key, suffix \o "_array", ints, s)
             IN  CheckRet(a, a.st, msg)
        ELSE IF IsCData(specimen) /\ specimen[2][1] \in CTypes
        THEN LET suffix == _type_to_suffix(specimen[2][1])
                 a == nvlist_add(nv, key, suffix \o "_array", ints, s)
             IN  CheckRet(a, a.st, msg)
        ELSE UnsupportedValue(specimen, nv, s)

\* one turn of the loop of _dict_to_nvlist
DictItem(k, v, nv, s) ==
    LET msg == "nvlist_add failed"
    IN  IF ~IsBasestring(k)
        THEN Result(TypeError("Unsupported key type", <<TypeName(k)>>), nv, s)
        ELSE IF IsDict(v)
        THEN LET r == NvlistInSetup(v, s)
                 a == nvlist_add(nv, k[2], "nvlist", r.nvlist.pairs, r.st)
             IN  IF r.exc # NoExc
                 THEN Result(r.exc, nv, r.st)
                 ELSE CheckRet(a, nvlist_free(r.nvlist.id, a.st), msg)
        ELSE IF IsList(v)
        THEN _nvlist_add_array(nv, k[2], v[2], s)
        ELSE IF IsBasestring(v)
        THEN LET a == nvlist_add(nv, k[2], "string", v[2], s)
             IN  CheckRet(a, a.st, msg)
        ELSE IF IsBool(v)
        THEN LET a == nvlist_add(nv, k[2], "boolean_value", ToCInt(v), s)
             IN  CheckRet(a, a.st, msg)
        ELSE IF IsNone(v)
        THEN LET a == nvlist_add_boolean(nv, k[2], s)
             IN  CheckRet(a, a.st, msg)
        ELSE IF IsIntegral(v)
        THEN LET suffix == _prop_name_to_type_str(k[2])
                 a == nvlist_add(nv, k[2], suffix, ToCInt(v), s)
             IN  CheckRet(a, a.st, msg)
        ELSE IF IsCData(v) /\ v[2][1] \in CTypes
        THEN LET suffix == _type_to_suffix(v[2][1])
                 a == nvlist_add(nv, k[2], suffix, ToCInt(v), s)
             IN  CheckRet(a, a.st, msg)
        ELSE UnsupportedValue(v, nv, s)

\* an iteration from the last item to the first
DictItemsReversed(items, i, nv, s) ==
    IF i > Len(items) THEN Result(NoExc, nv, s)
    ELSE LET j == Len(items) + 1 - i
             r == DictItem(items[j][1], items[j][2], nv, s)
         IN  IF r.exc # NoExc THEN r
             ELSE DictItems(items, i + 1, r.nvlist, r.st)

DictItems(items, i, nv, s) ==
    IF i > Len(items) THEN Result(NoExc, nv, s)
    ELSE LET r == DictItem(items[i][1], items[i][2], nv, s)
         IN  IF r.exc # NoExc THEN r
             ELSE DictItems(items, i + 1, r.nvlist, r.st)

(***************************************************************************)
(* The decoder: _nvlist_to_dict and the convert functions of _type_info.   *)
(* It reads the container whose address is id;  the pairs of a nested      *)
(* container are read in place.  Each returns [exc, props, st]: props is   *)
(* the dictionary as the decoder left it.                                  *)
(***************************************************************************)
\* _lib.nvpair_value_<suffix>(pair, valptr): [ret, st]
nvpair_value(id, s) ==
    [ret |-> IF NativeFails(s) THEN 22 ELSE 0,
     st |-> [s EXCEPT !.calls = @ + 1, !.uaf = @ \/ id \notin s.live]]

RECURSIVE DecodePairs(_, _, _, _, _)

\* _nvlist_to_dict(nvlist, props)
_nvlist_to_dict(id, pairs, props, s) == DecodePairs(id, pairs, 1, props, s)

\* typeinfo.convert for the types without a nested container
ConvertScalar(suffix, x) ==
    CASE suffix = "boolean_value" -> PyBool(x # 0)
      [] suffix = "string" -> PyStr(x)
      [] OTHER -> PyInt(x)

\* a conversion that frees the container it has read a nested one from
ConvertReleasing(id, suffix, x, s) ==
    IF suffix = "nvlist"
    THEN LET r == _nvlist_to_dict(id, x, <<>>, s)
         IN  [exc |-> r.exc, val |-> PyDict(r.props), st |-> nvlist_free(id, r.st)]
    ELSE [exc |-> NoExc, val |-> ConvertScalar(suffix, x), st |-> s]

\* typeinfo.convert(x): [exc, val, st]
Convert(id, suffix, x, s) ==
    IF suffix = "nvlist"
    THEN LET r == _nvlist_to_dict(id, x, <<>>, s)
         IN  [exc |-> r.exc, val |-> PyDict(r.props), st |-> r.st]
    ELSE [exc |-> NoExc, val |-> ConvertScalar(suffix, x), st |-> s]

\* "for i in range(length): val.append(typeinfo.convert(valptr[0][i]))"
RECURSIVE ConvertArray(_, _, _, _, _, _)
ConvertArray(id, suffix, xs, i, val, s) ==
    IF i > Len(xs) THEN [exc |-> NoExc, val |-> PyList(val), st |-> s]
    ELSE LET c == Convert(id, suffix, xs[i], s)
         IN  IF c.exc # NoExc THEN [exc |-> c.exc, val |-> PyList(val), st |-> c.st]
             ELSE ConvertArray(id, suffix, xs, i + 1, Append(val, c.val), c.st)

\* the other reading of the XXX of line 188: "val = True"
DecodeBooleanAsTrue(id, pair, s) ==
    [exc |-> NoExc, val |-> PyBool(TRUE), st |-> s]

\* the value of a DATA_TYPE_BOOLEAN pair: "val = None"
DecodeBoolean(id, pair, s) ==
    [exc |-> NoExc, val |-> PyNone, st |-> s]

\* the body of the loop of _nvlist_to_dict up to "props[name] = val": [exc, val, st]
DecodePair(id, pair, s) ==
    LET typeid == pair[2]
        rd == nvpair_value(id, s)
    IN  IF typeid \notin KnownTypeIds
        THEN [exc |-> KeyError(typeid), val |-> PyNone, st |-> s]
        ELSE IF IsArrayType(typeid)
        THEN IF rd.ret # 0
             THEN [exc |-> RuntimeError("nvpair_value failed"), val |-> PyNone, st |-> rd.st]
             ELSE ConvertArray(id, ElemSuffix(typeid), pair[3], 1, <<>>, rd.st)
        ELSE IF typeid = "boolean"
        THEN DecodeBoolean(id, pair, s)
        ELSE IF rd.ret # 0
        THEN [exc |-> RuntimeError("nvpair_value failed"), val |-> PyNone, st |-> rd.st]
        ELSE Convert(id, typeid, pair[3], rd.st)

DecodePairs(id, pairs, i, props, s) ==
    IF i > Len(pairs) THEN [exc |-> NoExc, props |-> props, st |-> s]
    ELSE LET d == DecodePair(id, pairs[i], s)
         IN  IF d.exc # NoExc THEN [exc |-> d.exc, props |-> props, st |-> d.st]
             ELSE DecodePairs(id, pairs, i + 1,
                              SetItem(props, PyStr(pairs[i][1]), d.val), d.st)

(***************************************************************************)
(* The dictionaries the callers pass, and the containers the native        *)
(* functions hand back.                                                    *)
(***************************************************************************)
SeqsUpTo(S, n) == UNION {[1..k -> S] : k \in 0..n}
SeqsFrom1(S, n) == UNION {[1..k -> S] : k \in 1..n}

\* ctype(1) for every cast helper
AnnotatedOnes == {CData(ctype, 1) : ctype \in CTypes}
ScalarVals == {PyNone, PyBool(TRUE), PyStr("a"), PyInt(5), PyInt(-1),
               CData("uint32_t", 5), CData("int8_t", -1), PyFloat(1)}
              \cup AnnotatedOnes
ElemVals == {PyBool(TRUE), PyStr("a"), PyInt(5), CData("uint32_t", 5),
             CData("int8_t", -1), PyFloat(1)}
InnerItems == {<<PyStr("x"), PyInt(5)>>, <<PyStr("x"), PyNone>>,
               <<PyStr("x"), PyFloat(1)>>, <<PyInt(7), PyInt(5)>>}
InnerDicts == {PyDict(items) : items \in SeqsUpTo(InnerItems, 1)}
NestedDicts == InnerDicts \cup {PyDict(<< <<PyStr("y"), d>> >>) : d \in InnerDicts}
ScalarLists == {PyList(elems) : elems \in SeqsUpTo(ElemVals, MaxLen)}
DictLists == {PyList(elems) : elems \in SeqsFrom1(InnerDicts, MaxLen)}
TopVals == ScalarVals \cup ScalarLists \cup DictLists \cup NestedDicts
TopKeys == {PyStr("k"), PyStr("type"), PyStr("pool_context"), PyStr("rewind-request"),
            PyStr("N_MORE_ERRORS"), PyInt(7)}
\* the values of the dictionaries of two items
PairVals == {PyNone, PyInt(5), PyFloat(1), PyList(<<>>),
             PyList(<<PyStr("a"), PyInt(5)>>), PyDict(<< <<PyStr("x"), PyFloat(1)>> >>)}

\* the dictionary {"b": 1, "c": "x"}, written in either order, alone and nested
OrderedDicts ==
    LET inner == {DictLiteral(<< <<PyStr("b"), PyInt(1)>>, <<PyStr("c"), PyStr("x")>> >>),
                  DictLiteral(<< <<PyStr("c"), PyStr("x")>>, <<PyStr("b"), PyInt(1)>> >>)}
    IN  inner \cup {PyDict(<< <<PyStr("a"), d>> >>) : d \in inner}

InputDicts ==
    OrderedDicts
    \cup {PyDict(<<>>)}
    \cup {PyDict(<< <<k, v>> >>) : k \in TopKeys, v \in TopVals}
    \cup {PyDict(<< <<k1, v1>>, <<k2, v2>> >>) :
             k1 \in {PyStr("k")}, k2 \in {PyStr("type"), PyInt(7)},
             v1 \in PairVals, v2 \in PairVals}

\* what the caller's output dictionary holds before the with-block
OldOutDicts == {PyDict(<<>>), PyDict(<< <<PyStr("old"), PyInt(5)>> >>)}

\* the pairs of the containers the native functions produce themselves;
\* "hrtime" and "double" are types of libnvpair _type_info does not list
NativePairs == {
    <<>>,
    << <<"a", "string", "x">>, <<"b", "uint64", 5>> >>,
    << <<"b", "uint64", 1>>, <<"c", "string", "x">> >>,
    << <<"a", "boolean", 0>>, <<"h", "hrtime", 5>> >>,
    << <<"a", "int32", 17>>, <<"n", "nvlist", << <<"d", "double", 0>> >> >> >>,
    << <<"e", "nvlist_array", << << <<"x", "int32", 2>> >>, <<>> >> >> >> }

(***************************************************************************)
(* The lazy proxies: LazyLibrary (bindings/__init__.py) opens a library at *)
(* the first access to an attribute, LazyInit (libzfs_core.py) calls       *)
(* libzfs_core_init at the first access.  Both test, take their lock and   *)
(* test again.  A thread works through __getattr__ one access to the       *)
(* shared attributes at a time.                                            *)
(***************************************************************************)
Threads == 1..NThreads
Libraries == {"libnvpair", "libzfs_core"}
None == 0
Handle == 1
\* what libzfs_core_init returns: 0, or an errno
InitStatuses == {0, 12}

ZFSInitializationFailed(ret) == <<"ZFSInitializationFailed", ret>>
OSError == <<"OSError", 0>>
NoError == <<"none", 0>>

\* a thread outside __getattr__: n counts its accesses; of the access under way,
\* lib is the library of the LazyLibrary, back where its __getattr__ was called
\* from, ret the status of libzfs_core_init, inits the calls of it, attr whether
\* the attribute was returned, error the exception raised
IdleThread == [pc |-> "idle", n |-> 0, lib |-> "libzfs_core", back |-> "done",
               ret |-> 0, inits |-> 0, attr |-> FALSE, error |-> NoError]

\* the accesses of the threads 1..t so far
RECURSIVE AccessesUpTo(_)
AccessesUpTo(t) == IF t = 0 THEN 0 ELSE th[t].n + AccessesUpTo(t - 1)

At(t, where) == th[t].pc = where
Goto(t, where) == [th EXCEPT ![t].pc = where]
\* the call of LazyLibrary.__getattr__ of library l, to continue at back
CallLibrary(t, l, back) ==
    [th EXCEPT ![t].pc = "ll_check1", ![t].lib = l, ![t].back = back]

\* a function of the package is called: it reads an attribute of the LazyInit
\* proxy of libzfs_core.lib (_lib.lzc_...), or of libnvpair.lib (nvlist.py)
Access(t) ==
    /\ At(t, "idle") /\ AccessesUpTo(NThreads) < MaxAccess
    /\ \/ th' = [th EXCEPT ![t] = [IdleThread EXCEPT !.pc = "li_check1", !.n = th[t].n + 1]]
       \/ th' = [th EXCEPT ![t] = [IdleThread EXCEPT !.pc = "ll_check1", !.n = th[t].n + 1,
                                                     !.lib = "libnvpair"]]
    /\ UNCHANGED <<_inited, _lock, _lib, ll_lock, hist, codecVars, callVars>>

\* LazyInit.__getattr__: "if not self._inited:"
LiCheck1(t) ==
    /\ At(t, "li_check1")
    /\ th' = IF ~_inited THEN Goto(t, "li_acquire")
             ELSE CallLibrary(t, "libzfs_core", "done")
    /\ UNCHANGED <<_inited, _lock, _lib, ll_lock, hist, codecVars, callVars>>

\* "with self._lock:"
LiAcquire(t) ==
    /\ At(t, "li_acquire")
    /\ _lock = 0
    /\ _lock' = t
    /\ th' = Goto(t, "li_check2")
    /\ UNCHANGED <<_inited, _lib, ll_lock, hist, codecVars, callVars>>

\* a second test that does not look at the flag
SecondCheckSkipped(inited) == TRUE

\* the test under the lock: "if not self._inited:"
SecondCheck(inited) == ~inited

\* under the lock: the second test, then self._lib.libzfs_core_init is looked up
LiCheck2(t) ==
    /\ At(t, "li_check2")
    /\ th' = IF SecondCheck(_inited)
             THEN CallLibrary(t, "libzfs_core", "li_call")
             ELSE Goto(t, "li_release")
    /\ UNCHANGED <<_inited, _lock, _lib, ll_lock, hist, codecVars, callVars>>

\* "ret = self._lib.libzfs_core_init()"
LiCall(t) ==
    /\ At(t, "li_call")
    /\ \E ret \in InitStatuses :
           /\ th' = [th EXCEPT ![t].pc = "li_ret", ![t].ret = ret, ![t].inits = @ + 1]
           /\ hist' = [hist EXCEPT !.init_calls = @ + 1,
                                   !.init_ok = IF ret = 0 THEN @ + 1 ELSE @,
                                   !.unloaded_use = @ \/ _lib["libzfs_core"] = None]
    /\ UNCHANGED <<_inited, _lock, _lib, ll_lock, codecVars, callVars>>

\* a status that is never taken for a failure
InitFailedNever(ret) == FALSE

\* "if ret != 0:"
InitFailed(ret) == ret # 0

\* a raise that leaves the lock taken
LiRetKeepsLock(t) ==
    /\ At(t, "li_ret")
    /\ IF InitFailed(th[t].ret)
       THEN /\ th' = [th EXCEPT ![t].pc = "raised",
                                ![t].error = ZFSInitializationFailed(th[t].ret)]
            /\ UNCHANGED <<_inited, hist>>
       ELSE /\ _inited' = TRUE
            /\ hist' = [hist EXCEPT !.sets = IF _inited THEN @ ELSE @ + 1]
            /\ th' = Goto(t, "li_release")
    /\ UNCHANGED <<_lock, _lib, ll_lock, codecVars, callVars>>

\* the flag set before the status is looked at
LiRetFlagFirst(t) ==
    /\ At(t, "li_ret")
    /\ _inited' = TRUE
    /\ IF InitFailed(th[t].ret)
       THEN /\ th' = [th EXCEPT ![t].pc = "raised",
                                ![t].error = ZFSInitializationFailed(th[t].ret)]
            /\ _lock' = 0
            /\ UNCHANGED hist
       ELSE /\ hist' = [hist EXCEPT !.sets = IF _inited THEN @ ELSE @ + 1]
            /\ th' = Goto(t, "li_release")
            /\ UNCHANGED _lock
    /\ UNCHANGED <<_lib, ll_lock, codecVars, callVars>>

\* "if ret != 0: raise ZFSInitializationFailed(ret)", which leaves the with-block
\* and releases the lock; else "self._inited = True"
LiRet(t) ==
    /\ At(t, "li_ret")
    /\ IF InitFailed(th[t].ret)
       THEN /\ th' = [th EXCEPT ![t].pc = "raised",
                                ![t].error = ZFSInitializationFailed(th[t].ret)]
            /\ _lock' = 0
            /\ UNCHANGED <<_inited, hist>>
       ELSE /\ _inited' = TRUE
            /\ hist' = [hist EXCEPT !.sets = IF _inited THEN @ ELSE @ + 1]
            /\ th' = Goto(t, "li_release")
            /\ UNCHANGED _lock
    /\ UNCHANGED <<_lib, ll_lock, codecVars, callVars>>

\* the end of the with-block, then "return getattr(self._lib, name)"
LiRelease(t) ==
    /\ At(t, "li_release")
    /\ _lock' = 0
    /\ th' = CallLibrary(t, "libzfs_core", "done")
    /\ UNCHANGED <<_inited, _lib, ll_lock, hist, codecVars, callVars>>

\* LazyLibrary.__getattr__: "if self._lib is None:"
LlCheck1(t) ==
    /\ At(t, "ll_check1")
    /\ th' = Goto(t, IF _lib[th[t].lib] = None THEN "ll_acquire" ELSE "ll_getattr")
    /\ UNCHANGED <<_inited, _lock, _lib, ll_lock, hist, codecVars, callVars>>

\* "with self._lock:"
LlAcquire(t) ==
    /\ At(t, "ll_acquire")
    /\ ll_lock[th[t].lib] = 0
    /\ ll_lock' = [ll_lock EXCEPT ![th[t].lib] = t]
    /\ th' = Goto(t, "ll_check2")
    /\ UNCHANGED <<_inited, _lock, _lib, hist, codecVars, callVars>>

\* under the lock: "if self._lib is None:"
LlCheck2(t) ==
    /\ At(t, "ll_check2")
    /\ th' = Goto(t, IF _lib[th[t].lib] = None THEN "ll_dlopen" ELSE "ll_release")
    /\ UNCHANGED <<_inited, _lock, _lib, ll_lock, hist, codecVars, callVars>>

\* "self._lib = self._ffi.dlopen(self._libname)": dlopen returns the handle, or
\* raises OSError, which leaves the with-blocks of LazyLibrary and of LazyInit
LlDlopen(t) ==
    /\ At(t, "ll_dlopen")
    /\ \/ /\ _lib' = [_lib EXCEPT ![th[t].lib] = Handle]
          /\ hist' = [hist EXCEPT !.dlopen_ok[th[t].lib] = @ + 1]
          /\ th' = Goto(t, "ll_release")
          /\ UNCHANGED <<_lock, ll_lock>>
       \/ /\ th' = [th EXCEPT ![t].pc = "raised", ![t].error = OSError]
          /\ ll_lock' = [ll_lock EXCEPT ![th[t].lib] = 0]
          /\ _lock' = IF _lock = t THEN 0 ELSE _lock
          /\ UNCHANGED <<_lib, hist>>
    /\ UNCHANGED <<_inited, codecVars, callVars>>

\* the end of the with-block of LazyLibrary
LlRelease(t) ==
    /\ At(t, "ll_release")
    /\ ll_lock' = [ll_lock EXCEPT ![th[t].lib] = 0]
    /\ th' = Goto(t, "ll_getattr")
    /\ UNCHANGED <<_inited, _lock, _lib, hist, codecVars, callVars>>

\* "return getattr(self._lib, name)": back in LazyInit before the call of
\* libzfs_core_init, or the attribute is what the access returns
LlGetattr(t) ==
    /\ At(t, "ll_getattr")
    /\ th' = IF th[t].back = "li_call" THEN Goto(t, "li_call")
             ELSE [th EXCEPT ![t].pc = "returned", ![t].attr = TRUE]
    /\ hist' = [hist EXCEPT !.unloaded_use = @ \/ _lib[th[t].lib] = None]
    /\ UNCHANGED <<_inited, _lock, _lib, ll_lock, codecVars, callVars>>

\* the caller has the attribute, or the exception
AccessDone(t) ==
    /\ th[t].pc \in {"returned", "raised"}
    /\ th' = Goto(t, "idle")
    /\ UNCHANGED <<_inited, _lock, _lib, ll_lock, hist, codecVars, callVars>>

(***************************************************************************)
(* The operations on several targets (lzc_snapshot, lzc_destroy_snaps,     *)
(* lzc_bookmark, lzc_destroy_bookmarks, lzc_hold, lzc_release) and         *)
(* lzc_send, as functions of their arguments and of what the native call   *)
(* reports: its status ret and the error list it fills.                    *)
(***************************************************************************)
\* the values of the module errno that the code names, and EPERM for a status
\* that no branch names
EPERM == 1
ENOENT == 2
EIO == 5
E2BIG == 7
EBADF == 9
EAGAIN == 11
EBUSY == 16
EEXIST == 17
EXDEV == 18
EINVAL == 22
ENOSPC == 28
EROFS == 30
ENAMETOOLONG == 36
ENOTSUP == 95
EDQUOT == 122
MAXNAMELEN == 255
LZC_SEND_FLAG_EMBED_DATA == 1
LZC_SEND_FLAG_LARGE_BLOCK == 2

\* the name None stands for Python's None where a name is expected
NoName == "None"
bool(name) == name # NoName

\* the names used: their length, pool, filesystem and validity are what the
\* functions of libzfs_core.py compute on the strings
len(name) ==
    CASE name \in {LongSnap, LongTag} -> 256
      [] name \in {"p/f", "tag"} -> 3
      [] OTHER -> 5
_pool_name(name) == IF name \in {"q/f@s", "q/f#b"} THEN "q" ELSE "p"
_fs_name(name) ==
    CASE name \in {"q/f@s", "q/f#b"} -> "q/f"
      [] name = "p/g@s" -> "p/g"
      [] OTHER -> "p/f"
_is_valid_fs_name(name) == name = "p/f"
_is_valid_snap_name(name) == name \in {"p/f@s", "q/f@s", "p/g@s", LongSnap}
_is_valid_bmark_name(name) == name \in {"p/f#b", "q/f#b"}

\* a dictionary with strings for keys: its items in the order of iteration
RECURSIVE BySlot(_)
BySlot(S) ==
    IF S = {} THEN <<>>
    ELSE LET k == CHOOSE k \in S : \A o \in S : Slot(k) <= Slot(o)
         IN  <<k>> \o BySlot(S \ {k})
DictOver(S, f) == LET ks == BySlot(S) IN [i \in 1..Len(ks) |-> <<ks[i], f[ks[i]]>>]
keys(d) == [i \in 1..Len(d) |-> d[i][1]]
HasKey(d, k) == \E i \in 1..Len(d) : d[i][1] = k
GetItem(d, k) == d[CHOOSE i \in 1..Len(d) : d[i][1] = k][2]
\* an error object of exceptions.py: its class and the name it is about
Err(cls, name) == <<cls, name>>
\* what a call of a mapper does: it returns an object, or raises
Return(obj) == <<"return", obj>>
Raise(e) == <<"raise", e>>
ReturnNone == Return(Err("NoneType", NoName))
\* no return statement reached yet
Fall == <<"fall", <<>> >>
AttributeError == <<"AttributeError", "'NoneType' object has no attribute 'errno'", <<>> >>
AssertionError == <<"AssertionError", "", <<>> >>
ValueError(flag) == <<"ValueError", "Unknown flag value", <<flag>> >>
IOError(ret) == <<"IOError", "", <<ret>> >>
\* an exception of exceptions.py that is raised, with the arguments given
ZFSException(cls, args) == <<cls, "", args>>

genericException(err, name, message) ==
    CASE err = EIO -> Err("ZIOError", name)
      [] err = ENOSPC -> Err("NoSpace", name)
      [] err = EDQUOT -> Err("QuotaExceeded", name)
      [] err = EBUSY -> Err("DatasetBusy", name)
      [] err = ENAMETOOLONG -> Err("NameTooLong", name)
      [] err = EROFS -> Err("ReadOnlyPool", name)
      [] err = EAGAIN -> Err("SuspendedPool", name)
      [] err = EXDEV -> Err("PoolsDiffer", name)
      [] err = ENOTSUP -> Err("PropertyNotSupported", name)
      [] OTHER -> Err("ZFSError", name)

\* what a function does: [status, exc, value, built, sent]; built is the list
\* errors as _handleErrList built it, sent the flags the native lzc_send got
Returned(value) ==
    [status |-> "returned", exc |-> NoExc, value |-> value, built |-> <<>>, sent |-> <<>>]
Raised(e, built) ==
    [status |-> "raised", exc |-> e, value |-> <<>>, built |-> built, sent |-> <<>>]

\* the parameters of __init__ of each compound exception, after self:
\* errors and suppressed_count
Arity(exception) == 2

\* MultipleOperationsFailure.__init__: errors[0].errno is the overall errno
MultipleOperationsFailure(cls, errors, suppressed_count) ==
    IF Len(errors) = 0 THEN Raised(IndexError, errors)
    ELSE IF errors[1][1] = "NoneType" THEN Raised(AttributeError, errors)
    ELSE Raised(ZFSException(cls, errors), errors)

\* "raise exception(errors)": the call of the class with the arguments args
Construct(exception, args) ==
    IF Len(args) # Arity(exception)
    THEN Raised(TypeError("__init__() takes exactly 3 arguments", <<>>), args[1])
    ELSE MultipleOperationsFailure(exception, args[1], args[2])

\* _map of lzc_snapshot
lzc_snapshot_map(snaps, ret, name) ==
    IF ret = EXDEV
    THEN IF \A i \in 1..Len(snaps) : _pool_name(snaps[i]) = _pool_name(snaps[1])
         THEN Return(Err("DuplicateSnapshots", name))
         ELSE Return(Err("PoolsDiffer", name))
    ELSE IF ret = EINVAL
    THEN IF \E i \in 1..Len(snaps) : ~_is_valid_snap_name(snaps[i])
         THEN Return(Err("NameInvalid", name))
         ELSE IF \E i \in 1..Len(snaps) : len(snaps[i]) > MAXNAMELEN
         THEN Return(Err("NameTooLong", name))
         ELSE Return(Err("PropertyInvalid", name))
    ELSE CASE ret = EEXIST -> Return(Err("SnapshotExists", name))
           [] ret = ENOENT -> Return(Err("FilesystemNotFound", name))
           [] OTHER -> Return(genericException(ret, name, "Failed to create snapshot"))

\* _map of lzc_destroy_snaps
lzc_destroy_snaps_map(ret, name) ==
    CASE ret = EEXIST -> Return(Err("SnapshotIsCloned", name))
      [] ret = ENOENT -> Return(Err("PoolNotFound", name))
      [] ret = EBUSY -> Return(Err("SnapshotIsHeld", name))
      [] OTHER -> Return(genericException(ret, name, "Failed to destroy snapshot"))

\* _map of lzc_bookmark
lzc_bookmark_map(bookmarks, ret, name) ==
    LET snap == GetItem(bookmarks, name)
        invalid_names == SelectSeq(keys(bookmarks), LAMBDA b : ~_is_valid_bmark_name(b))
        early ==
            IF ret # EINVAL THEN Fall
            ELSE IF bool(name)
            THEN IF ~HasKey(bookmarks, name) THEN Raise(KeyError(name))
                 ELSE IF ~_is_valid_bmark_name(name) THEN Return(Err("NameInvalid", name))
                 ELSE IF ~_is_valid_snap_name(snap) THEN Return(Err("NameInvalid", snap))
                 ELSE IF _fs_name(name) # _fs_name(snap) THEN Return(Err("BookmarkMismatch", name))
                 ELSE IF \E i \in 1..Len(bookmarks) : _pool_name(bookmarks[i][1]) # _pool_name(name)
                 THEN Return(Err("PoolsDiffer", name))
                 ELSE Fall
            ELSE IF Len(invalid_names) > 0 THEN Return(Err("NameInvalid", invalid_names[1]))
                 ELSE Fall
    IN  IF early # Fall THEN early
        ELSE CASE ret = EEXIST -> Return(Err("BookmarkExists", name))
               [] ret = ENOENT -> Return(Err("SnapshotNotFound", name))
               [] ret = ENOTSUP -> Return(Err("BookmarkNotSupported", name))
               [] OTHER -> Return(genericException(ret, name, "Failed to create bookmark"))

\* _map of lzc_destroy_bookmarks
lzc_destroy_bookmarks_map(ret, name) ==
    CASE ret = EINVAL -> Return(Err("NameInvalid", name))
      [] OTHER -> Return(genericException(ret, name, "Failed to destroy bookmark"))

\* _map of lzc_hold: the display of the last return statement evaluates
\* holds[name] whatever ret is
lzc_hold_map(holds, ret, name) ==
    LET invalid_names == SelectSeq(keys(holds), LAMBDA b : ~_is_valid_snap_name(b))
        early ==
            IF ret # EINVAL THEN Fall
            ELSE IF bool(name)
            THEN IF ~HasKey(holds, name) THEN Raise(KeyError(name))
                 ELSE IF ~_is_valid_snap_name(name) THEN Return(Err("NameInvalid", name))
                 ELSE IF len(name) > MAXNAMELEN THEN Return(Err("NameTooLong", name))
                 ELSE IF \E i \in 1..Len(holds) : _pool_name(holds[i][1]) # _pool_name(name)
                 THEN Return(Err("PoolsDiffer", name))
                 ELSE Fall
            ELSE IF Len(invalid_names) > 0 THEN Return(Err("NameInvalid", invalid_names[1]))
                 ELSE Fall
    IN  IF ret = EXDEV THEN Return(Err("PoolsDiffer", name))
        ELSE IF early # Fall THEN early
        ELSE IF ~HasKey(holds, name) THEN Raise(KeyError(name))
        ELSE CASE ret = EEXIST -> Return(Err("HoldExists", name))
               [] ret = E2BIG -> Return(Err("NameTooLong", GetItem(holds, name)))
               [] OTHER -> Return(genericException(ret, name, "Failed to hold snapshot"))

\* _map of lzc_release: the branch of EINVAL can end without a return statement
lzc_release_map(holds, ret, name) ==
    LET invalid_names == SelectSeq(keys(holds), LAMBDA b : ~_is_valid_snap_name(b))
        too_long_tags == SelectSeq(GetItem(holds, name)[2], LAMBDA t : len(t) > MAXNAMELEN)
    IN  IF ret = EXDEV THEN Return(Err("PoolsDiffer", name))
        ELSE IF ret = EINVAL
        THEN IF bool(name)
             THEN IF ~_is_valid_snap_name(name) THEN Return(Err("NameInvalid", name))
                  ELSE IF len(name) > MAXNAMELEN THEN Return(Err("NameTooLong", name))
                  ELSE IF \E i \in 1..Len(holds) : _pool_name(holds[i][1]) # _pool_name(name)
                  THEN Return(Err("PoolsDiffer", name))
                  ELSE ReturnNone
             ELSE IF Len(invalid_names) > 0 THEN Return(Err("NameInvalid", invalid_names[1]))
                  ELSE ReturnNone
        ELSE IF ret = ENOENT THEN Return(Err("HoldNotFound", name))
        ELSE IF ret = E2BIG
        THEN IF ~HasKey(holds, name) THEN Raise(KeyError(name))
             ELSE IF Len(too_long_tags) = 0 THEN Raise(IndexError)
             ELSE Return(Err("NameTooLong", too_long_tags[1]))
        ELSE Return(genericException(ret, name, "Failed to release snapshot hold"))

\* the function _map that a call of fn defines: a closure over the arguments of fn
_map(fn, args) == <<fn, args>>
\* mapper(ret, name)
Call(mapper, ret, name) ==
    CASE mapper[1] = "lzc_snapshot" -> lzc_snapshot_map(mapper[2], ret, name)
      [] mapper[1] = "lzc_destroy_snaps" -> lzc_destroy_snaps_map(ret, name)
      [] mapper[1] = "lzc_bookmark" -> lzc_bookmark_map(mapper[2], ret, name)
      [] mapper[1] = "lzc_destroy_bookmarks" -> lzc_destroy_bookmarks_map(ret, name)
      [] mapper[1] = "lzc_hold" -> lzc_hold_map(mapper[2], ret, name)
      [] mapper[1] = "lzc_release" -> lzc_release_map(mapper[2], ret, name)

_handleErrList(ret, errlist, names, exception, mapper) ==
    IF ret = 0 THEN Returned(<<>>)
    ELSE LET mapped ==
                 IF Len(errlist) = 0
                 THEN << Call(mapper, ret, IF Len(names) = 1 THEN names[1] ELSE NoName) >>
                 ELSE [i \in 1..Len(errlist) |-> Call(mapper, errlist[i][2], errlist[i][1])]
             failed == {i \in 1..Len(mapped) : mapped[i][1] = "raise"}
             first == CHOOSE i \in failed : \A j \in failed : i <= j
         IN  IF failed # {}
             THEN Raised(mapped[first][2], [i \in 1..(first - 1) |-> mapped[i][2]])
             ELSE Construct(exception, << [i \in 1..Len(mapped) |-> mapped[i][2]] >>)

lzc_snapshot(snaps, ret, errlist) ==
    _handleErrList(ret, errlist, snaps, "SnapshotFailure", _map("lzc_snapshot", snaps))

lzc_destroy_snaps(snaps, ret, errlist) ==
    _handleErrList(ret, errlist, snaps, "SnapshotDestructionFailure",
                   _map("lzc_destroy_snaps", snaps))

lzc_bookmark(bookmarks, ret, errlist) ==
    _handleErrList(ret, errlist, keys(bookmarks), "BookmarkFailure",
                   _map("lzc_bookmark", bookmarks))

lzc_destroy_bookmarks(bookmarks, ret, errlist) ==
    _handleErrList(ret, errlist, bookmarks, "BookmarkDestructionFailure",
                   _map("lzc_destroy_bookmarks", bookmarks))

lzc_hold(holds, ret, errlist) ==
    IF ret = EBADF \/ ret = ENOENT
    THEN Raised(ZFSException("BadHoldCleanupFD", <<>>), <<>>)
    ELSE LET handled == _handleErrList(ret, errlist, keys(holds), "HoldFailure",
                                       _map("lzc_hold", holds))
         IN  IF handled.status = "raised" THEN handled
             ELSE IF \E i \in 1..Len(errlist) : errlist[i][2] # ENOENT
             THEN Raised(AssertionError, <<>>)
             ELSE Returned(keys(errlist))

lzc_release(holds, ret, errlist) ==
    IF \E i \in 1..Len(holds) : holds[i][2][1] # "list"
    THEN Raised(TypeError("holds must be in a list", <<>>), <<>>)
    ELSE LET handled == _handleErrList(ret, errlist, keys(holds), "HoldReleaseFailure",
                                       _map("lzc_release", holds))
         IN  IF handled.status = "raised" THEN handled
             ELSE IF \E i \in 1..Len(errlist) : errlist[i][2] # ENOENT
             THEN Raised(AssertionError, <<>>)
             ELSE Returned(keys(errlist))

\* c_flags += c_flag
BitSum(a, b) == a + b

\* c_flags |= c_flag
RECURSIVE BitOr(_, _)
BitOr(a, b) ==
    IF a = 0 THEN b
    ELSE IF b = 0 THEN a
    ELSE (IF a % 2 = 1 \/ b % 2 = 1 THEN 1 ELSE 0) + 2 * BitOr(a \div 2, b \div 2)

\* the display of lzc_send: the flags that .get(flag) finds
KnownFlags == {"embedded_data", "large_blocks"}
FlagValue(flag) ==
    IF flag = "embedded_data" THEN LZC_SEND_FLAG_EMBED_DATA ELSE LZC_SEND_FLAG_LARGE_BLOCK

\* what the exit of lzc_send raises for the status of the native call
lzc_send_error(ret, snapname, fromsnap) ==
    LET given == fromsnap # NoName
        bad_from == given /\ ~_is_valid_snap_name(fromsnap) /\ ~_is_valid_bmark_name(fromsnap)
        named ==
            IF ret = EXDEV /\ given
            THEN IF _pool_name(fromsnap) # _pool_name(snapname)
                 THEN ZFSException("PoolsDiffer", <<snapname>>)
                 ELSE ZFSException("SnapshotMismatch", <<snapname>>)
            ELSE IF ret = EINVAL
            THEN IF bad_from THEN ZFSException("NameInvalid", <<fromsnap>>)
                 ELSE IF ~_is_valid_snap_name(snapname) /\ ~_is_valid_fs_name(snapname)
                 THEN ZFSException("NameInvalid", <<snapname>>)
                 ELSE IF given /\ len(fromsnap) > MAXNAMELEN
                 THEN ZFSException("NameTooLong", <<fromsnap>>)
                 ELSE IF len(snapname) > MAXNAMELEN
                 THEN ZFSException("NameTooLong", <<snapname>>)
                 ELSE IF given /\ _pool_name(fromsnap) # _pool_name(snapname)
                 THEN ZFSException("PoolsDiffer", <<snapname>>)
                 ELSE NoExc
            ELSE IF ret = ENOENT
            THEN IF bad_from THEN ZFSException("NameInvalid", <<fromsnap>>)
                 ELSE ZFSException("SnapshotNotFound", <<snapname>>)
            ELSE IF ret = ENAMETOOLONG
            THEN IF given /\ len(fromsnap) > MAXNAMELEN
                 THEN ZFSException("NameTooLong", <<fromsnap>>)
                 ELSE ZFSException("NameTooLong", <<snapname>>)
            ELSE NoExc
    IN  IF named # NoExc THEN named ELSE IOError(ret)

\* the loop over flags, from the i-th on, then the native call and its status
RECURSIVE lzc_send_from(_, _, _, _, _, _)
lzc_send_from(snapname, fromsnap, flags, ret, i, c_flags) ==
    IF i > Len(flags)
    THEN IF ret = 0
         THEN [Returned(<<>>) EXCEPT !.sent = <<c_flags>>]
         ELSE [Raised(lzc_send_error(ret, snapname, fromsnap), <<>>) EXCEPT !.sent = <<c_flags>>]
    ELSE IF flags[i] \notin KnownFlags THEN Raised(ValueError(flags[i]), <<>>)
    ELSE lzc_send_from(snapname, fromsnap, flags, ret, i + 1, BitOr(c_flags, FlagValue(flags[i])))

lzc_send(snapname, fromsnap, flags, ret) ==
    lzc_send_from(snapname, fromsnap, flags, ret, 1, 0)

\* the arguments of the calls, and what the native side can report
SnapNames == {"p/f@s", "q/f@s", "p/f", LongSnap}
BookmarkNames == {"p/f#b", "q/f#b", "p/f@s"}
BookmarkedSnaps == {"p/f@s", "p/g@s", "p/f"}
HoldTags == {"tag", LongTag}
TagLists == {<<"list", <<"tag">> >>, <<"list", <<LongTag>> >>, <<"str", <<"tag">> >>}
FlagNames == {"embedded_data", "large_blocks", "UNKNOWN"}
Statuses == {0, EPERM, ENOENT, E2BIG, EBADF, EEXIST, EXDEV, EINVAL}
SendStatuses == {0, ENOENT, EIO, EXDEV, EINVAL, ENAMETOOLONG}
ErrlistStatuses == {ENOENT, EEXIST, EINVAL}
Small(S) == {T \in SUBSET S : Cardinality(T) <= MaxTargets}
DictsOver(Keys, Vals) == UNION {{DictOver(S, f) : f \in [S -> Vals]} : S \in Small(Keys)}
Range(s) == {s[i] : i \in 1..Len(s)}
\* the error lists about some of the targets; the native lzc_hold and lzc_release
\* report status 0 when the only errors are missing snapshots or holds (ENOENT)
Errlists(targets, ret, held) ==
    UNION {{DictOver(S, f) : f \in [S -> IF held /\ ret = 0 THEN {ENOENT} ELSE ErrlistStatuses]}
           : S \in SUBSET targets}

NoCall == [fn |-> "none", targets |-> <<>>, ret |-> 0, errlist |-> <<>>,
           snapname |-> NoName, fromsnap |-> NoName]
Pending == [status |-> "pending", exc |-> NoExc, value |-> <<>>, built |-> <<>>, sent |-> <<>>]
CallOf(fn, targets, ret, errlist) == [NoCall EXCEPT !.fn = fn, !.targets = targets,
                                                    !.ret = ret, !.errlist = errlist]
\* the calls with the status ret of the native call
ListCalls(ret) ==
    UNION {{CallOf(fn, snaps, ret, errlist) : errlist \in Errlists(Range(snaps), ret, FALSE),
                                              fn \in {"lzc_snapshot", "lzc_destroy_snaps"}}
           : snaps \in SeqsUpTo(SnapNames, MaxTargets)}
    \cup UNION {{CallOf("lzc_destroy_bookmarks", bs, ret, errlist)
                     : errlist \in Errlists(Range(bs), ret, FALSE)}
                : bs \in SeqsUpTo(BookmarkNames, MaxTargets)}
BookmarkCalls(ret) ==
    UNION {{CallOf("lzc_bookmark", bs, ret, errlist)
                : errlist \in Errlists(Range(keys(bs)), ret, FALSE)}
           : bs \in DictsOver(BookmarkNames, BookmarkedSnaps)}
HoldCalls(ret) ==
    UNION {{CallOf("lzc_hold", holds, ret, errlist)
                : errlist \in Errlists(Range(keys(holds)), ret, TRUE)}
           : holds \in DictsOver(SnapNames, HoldTags)}
ReleaseCalls(ret) ==
    UNION {{CallOf("lzc_release", holds, ret, errlist)
                : errlist \in Errlists(Range(keys(holds)), ret, TRUE)}
           : holds \in DictsOver(SnapNames, TagLists)}
SendCalls(ret) ==
    {[NoCall EXCEPT !.fn = "lzc_send", !.targets = flags, !.ret = ret,
                    !.snapname = snapname, !.fromsnap = fromsnap]
        : flags \in SeqsUpTo(FlagNames, MaxFlags),
          snapname \in {"p/f@s", LongSnap}, fromsnap \in {NoName, "q/f@s", "p/f"}}

\* a call of one of the functions: the native call reports op.ret and op.errlist
Calling(fn) == op.fn = fn /\ res.status = "pending"
LzcSnapshot ==
    /\ Calling("lzc_snapshot")
    /\ res' = lzc_snapshot(op.targets, op.ret, op.errlist)
    /\ UNCHANGED <<op, lst, codecVars, initVars>>
LzcDestroySnaps ==
    /\ Calling("lzc_destroy_snaps")
    /\ res' = lzc_destroy_snaps(op.targets, op.ret, op.errlist)
    /\ UNCHANGED <<op, lst, codecVars, initVars>>
LzcBookmark ==
    /\ Calling("lzc_bookmark")
    /\ res' = lzc_bookmark(op.targets, op.ret, op.errlist)
    /\ UNCHANGED <<op, lst, codecVars, initVars>>
LzcDestroyBookmarks ==
    /\ Calling("lzc_destroy_bookmarks")
    /\ res' = lzc_destroy_bookmarks(op.targets, op.ret, op.errlist)
    /\ UNCHANGED <<op, lst, codecVars, initVars>>
LzcHold ==
    /\ Calling("lzc_hold")
    /\ res' = lzc_hold(op.targets, op.ret, op.errlist)
    /\ UNCHANGED <<op, lst, codecVars, initVars>>
LzcRelease ==
    /\ Calling("lzc_release")
    /\ res' = lzc_release(op.targets, op.ret, op.errlist)
    /\ UNCHANGED <<op, lst, codecVars, initVars>>
LzcSend ==
    /\ Calling("lzc_send")
    /\ res' = lzc_send(op.snapname, op.fromsnap, op.targets, op.ret)
    /\ UNCHANGED <<op, lst, codecVars, initVars>>

(***************************************************************************)
(* The steps of the callers and of the two context managers.               *)
(***************************************************************************)
BodyError == <<"Exception", "raised by the with-block", <<>> >>

\* no listing: lzc_list has not been called, no pipe exists
Descriptors == {"rfd", "wfd"}
NoListing == [pc |-> "idle", fd |-> NoName, other_fd |-> NoName, open |-> {},
              closes |-> [d \in Descriptors |-> 0], n |-> 0, exc |-> NoExc]

Init ==
    /\ pc_in = "idle"
    /\ pc_out = "idle"
    /\ props_in = PyDict(<<>>)
    /\ nvlist = NullNvlist
    /\ props_out = PyDict(<<>>)
    /\ nvlistp = NullNvlist
    /\ exc = NoExc
    /\ st = InitSt
    /\ _inited = FALSE
    /\ _lock = 0
    /\ _lib = [l \in Libraries |-> None]
    /\ ll_lock = [l \in Libraries |-> 0]
    /\ th = [t \in Threads |-> IdleThread]
    /\ hist = [init_calls |-> 0, init_ok |-> 0, sets |-> 0,
               dlopen_ok |-> [l \in Libraries |-> 0], unloaded_use |-> FALSE]
    /\ op = NoCall
    /\ res = Pending
    /\ lst = NoListing

\* the number of status-reporting native calls nvlist_in(props) makes
CallsOfEncode(props) == NvlistInSetup(props, BeginCall(st, 0)).st.calls

\* "with nvlist_in(props) as nvlist": nvlist_in up to its yield
NvlistInEnter ==
    /\ pc_in = "idle" /\ pc_out = "idle"
    /\ Cardinality(st.live) <= MaxLeaked
    /\ \E props \in InputDicts : \E failAt \in 0..CallsOfEncode(props) :
           LET r == NvlistInSetup(props, BeginCall(st, failAt))
           IN  /\ props_in' = props
               /\ nvlist' = r.nvlist
               /\ exc' = r.exc
               /\ st' = r.st
               /\ pc_in' = IF r.exc = NoExc THEN "body" ELSE "raised"
    /\ UNCHANGED <<pc_out, props_out, nvlistp, nonCodecVars>>

\* the end of the with-block of nvlist_in: "finally: _lib.nvlist_free(nvlist)"
NvlistInExit ==
    /\ pc_in = "body" /\ pc_out # "body"
    /\ st' = nvlist_free(nvlist.id, st)
    /\ \E raises \in BOOLEAN :
           exc' = IF raises /\ exc = NoExc THEN BodyError ELSE exc
    /\ pc_in' = "exited"
    /\ UNCHANGED <<pc_out, props_in, nvlist, props_out, nvlistp, nonCodecVars>>

\* "with nvlist_out(props) as nvlistp": nvlist_out up to its yield
NvlistOutEnter ==
    /\ pc_out = "idle" /\ pc_in \in {"idle", "body"}
    /\ pc_in = "idle" => Cardinality(st.live) <= MaxLeaked
    /\ props_out' \in OldOutDicts
    /\ nvlistp' = NullNvlist
    /\ pc_out' = "body"
    /\ st' = IF pc_in = "idle" THEN BeginCall(st, 0) ELSE st
    /\ UNCHANGED <<pc_in, props_in, nvlist, exc, nonCodecVars>>

\* a native function that allocates the container of its output parameter
NativeFill(pairs, s) ==
    LET id == SetMax(s.live \cup s.freed) + 1
    IN  [nvlistp |-> [id |-> id, pairs |-> pairs],
         st |-> [s EXCEPT !.allocs = @ + 1, !.live = @ \cup {id}]]

\* _lib.nvlist_dup(x, y, 0) in the with-block of nvlist_out
NvlistDup ==
    /\ pc_in = "body" /\ pc_out = "body" /\ nvlistp.id = NULL
    /\ LET r == NativeFill(nvlist.pairs, [st EXCEPT !.uaf = @ \/ nvlist.id \notin st.live])
       IN  nvlistp' = r.nvlistp /\ st' = r.st
    /\ UNCHANGED <<pc_in, pc_out, props_in, nvlist, props_out, exc, nonCodecVars>>

\* a function of libzfs_core fills the output parameter
NativeOut ==
    /\ pc_out = "body" /\ nvlistp.id = NULL
    /\ \E pairs \in NativePairs :
           LET r == NativeFill(pairs, st)
           IN  nvlistp' = r.nvlistp /\ st' = r.st
    /\ UNCHANGED <<pc_in, pc_out, props_in, nvlist, props_out, exc, nonCodecVars>>

\* the number of value reads the decoding of nvlistp makes
ReadsOfDecode ==
    _nvlist_to_dict(nvlistp.id, nvlistp.pairs, <<>>, BeginCall(st, 0)).st.calls

\* a finally block that is an else block: the free is skipped when the block
\* or the decoding raised
NvlistOutFinishFreeOnSuccess(raises, props, nvp, s) ==
    LET r == IF raises
             THEN [exc |-> BodyError, props |-> props[2], st |-> s]
             ELSE _nvlist_to_dict(nvp.id, nvp.pairs, <<>>, s)
    IN  [exc |-> r.exc, props |-> PyDict(r.props),
         st |-> IF nvp.id # NULL /\ r.exc = NoExc THEN nvlist_free(nvp.id, r.st) ELSE r.st]

\* a decoding into the dictionary as it is, without "props.clear()"
NvlistOutFinishMerging(raises, props, nvp, s) ==
    LET r == IF raises
             THEN [exc |-> BodyError, props |-> props[2], st |-> s]
             ELSE _nvlist_to_dict(nvp.id, nvp.pairs, props[2], s)
    IN  [exc |-> r.exc, props |-> PyDict(r.props),
         st |-> IF nvp.id # NULL THEN nvlist_free(nvp.id, r.st) ELSE r.st]

\* "props.clear()" before the yield: the dictionary is emptied whether or not
\* the block raises
NvlistOutFinishClearing(raises, props, nvp, s) ==
    LET r == IF raises
             THEN [exc |-> BodyError, props |-> <<>>, st |-> s]
             ELSE _nvlist_to_dict(nvp.id, nvp.pairs, <<>>, s)
    IN  [exc |-> r.exc, props |-> PyDict(r.props),
         st |-> IF nvp.id # NULL THEN nvlist_free(nvp.id, r.st) ELSE r.st]

\* the end of the with-block of nvlist_out, [exc, props, st]:
\* "props.clear(); _nvlist_to_dict(nvlistp[0], props)" unless the block raised,
\* then "finally: if nvlistp[0] != NULL: nvlist_free(nvlistp[0])"
NvlistOutFinish(raises, props, nvp, s) ==
    LET r == IF raises
             THEN [exc |-> BodyError, props |-> props[2], st |-> s]
             ELSE _nvlist_to_dict(nvp.id, nvp.pairs, <<>>, s)
    IN  [exc |-> r.exc, props |-> PyDict(r.props),
         st |-> IF nvp.id # NULL THEN nvlist_free(nvp.id, r.st) ELSE r.st]

NvlistOutExit ==
    /\ pc_out = "body"
    /\ \E raises \in BOOLEAN : \E failAt \in 0..ReadsOfDecode :
           LET r == NvlistOutFinish(raises, props_out, nvlistp,
                                    [st EXCEPT !.calls = 0, !.failAt = failAt])
           IN  /\ props_out' = r.props
               /\ exc' = r.exc
               /\ st' = r.st
    /\ pc_out' = "exited"
    /\ UNCHANGED <<pc_in, props_in, nvlist, nvlistp, nonCodecVars>>

\* the caller is done with the dictionaries and the exception
CallerReturns ==
    /\ \/ pc_in \in {"exited", "raised"}
       \/ pc_in = "idle" /\ pc_out = "exited"
    /\ pc_in' = "idle"
    /\ pc_out' = "idle"
    /\ props_in' = PyDict(<<>>)
    /\ nvlist' = NullNvlist
    /\ props_out' = PyDict(<<>>)
    /\ nvlistp' = NullNvlist
    /\ exc' = NoExc
    /\ st' = BeginCall(st, 0)
    /\ UNCHANGED nonCodecVars

Next ==
    \/ NvlistInEnter
    \/ NvlistInExit
    \/ NvlistOutEnter
    \/ NvlistDup
    \/ NativeOut
    \/ NvlistOutExit
    \/ CallerReturns

Spec == Init /\ [][Next]_vars

LazyNext ==
    \/ \E t \in Threads : Access(t)
    \/ \E t \in Threads : LiCheck1(t)
    \/ \E t \in Threads : LiAcquire(t)
    \/ \E t \in Threads : LiCheck2(t)
    \/ \E t \in Threads : LiCall(t)
    \/ \E t \in Threads : LiRet(t)
    \/ \E t \in Threads : LiRelease(t)
    \/ \E t \in Threads : LlCheck1(t)
    \/ \E t \in Threads : LlAcquire(t)
    \/ \E t \in Threads : LlCheck2(t)
    \/ \E t \in Threads : LlDlopen(t)
    \/ \E t \in Threads : LlRelease(t)
    \/ \E t \in Threads : LlGetattr(t)
    \/ \E t \in Threads : AccessDone(t)

LazySpec == Init /\ [][LazyNext]_vars

\* the steps of thread t inside __getattr__ and back to its caller
ThreadStep(t) ==
    \/ LiCheck1(t) \/ LiAcquire(t) \/ LiCheck2(t) \/ LiCall(t) \/ LiRet(t)
    \/ LiRelease(t) \/ LlCheck1(t) \/ LlAcquire(t) \/ LlCheck2(t) \/ LlDlopen(t)
    \/ LlRelease(t) \/ LlGetattr(t) \/ AccessDone(t)

\* the threads are scheduled: a thread that can take its next step takes it in
\* the end, the native calls return, and a thread waiting for a lock that stays
\* free gets it.  No thread has to start a new access.
LazyFairSpec ==
    Init /\ [][LazyNext]_vars /\ \A t \in Threads : WF_vars(ThreadStep(t))

\* the calls of the functions of libzfs_core.py, one call in each behaviour
CallInit ==
    /\ pc_in = "idle"
    /\ pc_out = "idle"
    /\ props_in = PyDict(<<>>)
    /\ nvlist = NullNvlist
    /\ props_out = PyDict(<<>>)
    /\ nvlistp = NullNvlist
    /\ exc = NoExc
    /\ st = InitSt
    /\ _inited = FALSE
    /\ _lock = 0
    /\ _lib = [l \in Libraries |-> None]
    /\ ll_lock = [l \in Libraries |-> 0]
    /\ th = [t \in Threads |-> IdleThread]
    /\ hist = [init_calls |-> 0, init_ok |-> 0, sets |-> 0,
               dlopen_ok |-> [l \in Libraries |-> 0], unloaded_use |-> FALSE]
    /\ \/ \E ret \in Statuses : op \in ListCalls(ret)
       \/ \E ret \in Statuses : op \in BookmarkCalls(ret)
       \/ \E ret \in Statuses : op \in HoldCalls(ret)
       \/ \E ret \in Statuses : op \in ReleaseCalls(ret)
       \/ \E ret \in SendStatuses : op \in SendCalls(ret)
    /\ res = Pending
    /\ lst = NoListing

CallNext ==
    \/ LzcSnapshot
    \/ LzcDestroySnaps
    \/ LzcBookmark
    \/ LzcDestroyBookmarks
    \/ LzcHold
    \/ LzcRelease
    \/ LzcSend

CallSpec == CallInit /\ [][CallNext]_vars

(***************************************************************************)
(* What the properties below speak of.                                     *)
(***************************************************************************)
IntCTypes == CTypes \ {"boolean_t"}

\* the kind of a value in the data model of the specification: the integers of
\* every width are one kind
Kind(v) == IF IsCData(v) /\ v[2][1] \in IntCTypes THEN "int" ELSE TypeName(v)

\* a value without its width annotations
RECURSIVE Plain(_)
Plain(v) ==
    CASE IsCData(v) -> PyInt(v[2][2])
      [] IsList(v) -> PyList([i \in 1..Len(v[2]) |-> Plain(v[2][i])])
      [] IsDict(v) -> PyDict([i \in 1..Len(v[2]) |-> <<v[2][i][1], Plain(v[2][i][2])>>])
      [] OTHER -> v

\* the width the specification gives an integer without annotation under a name
SpecWidth(name) ==
    CASE name \in {"rewind-request", "type"} -> "uint32"
      [] name \in {"N_MORE_ERRORS", "pool_context"} -> "int32"
      [] OTHER -> "uint64"

\* a dictionary of the documented format: string keys; None, bools, strings,
\* integers that fit their width, dictionaries, and lists of elements of one type
RECURSIVE SupportedDict(_)
SupportedScalar(name, v) ==
    \/ IsNone(v) \/ IsBool(v) \/ IsBasestring(v)
    \/ TypeName(v) = "int" /\ FitsCType(SpecWidth(name), v[2])
    \/ IsCData(v) /\ v[2][1] \in IntCTypes
SupportedList(name, array) ==
    /\ \A i \in 1..Len(array) :
          /\ ~IsNone(array[i])
          /\ SupportedScalar(name, array[i]) \/ (IsDict(array[i]) /\ SupportedDict(array[i]))
    /\ \A i, j \in 1..Len(array) :
          /\ TypeName(array[i]) = TypeName(array[j])
          /\ IsCData(array[i]) => array[i][2][1] = array[j][2][1]
SupportedDict(d) ==
    \A i \in 1..Len(d[2]) :
        LET k == d[2][i][1]
            v == d[2][i][2]
        IN  /\ IsBasestring(k)
            /\ \/ SupportedScalar(k[2], v)
               \/ IsDict(v) /\ SupportedDict(v)
               \/ IsList(v) /\ SupportedList(k[2], v[2])

\* nvlist_in has been called and no native call was made to fail
Encoded == pc_in # "idle" /\ st.failAt = 0 /\ exc # BodyError

\* the caller holds the dictionary decoded from a copy of the encoded container
RoundTripDone ==
    /\ pc_in = "body" /\ pc_out = "exited"
    /\ nvlistp.id # NULL /\ nvlistp.pairs = nvlist.pairs
    /\ st.failAt = 0 /\ exc # BodyError

(***************************************************************************)
(* C1.  Round trip: every dictionary of the documented format (None,       *)
(* bools, strings, integers, nested dictionaries, lists of one type, lists *)
(* of dictionaries) is encoded without error, and decoding the container   *)
(* gives the dictionary back with its integers plain.                      *)
(* The code does not do this: the empty list is refused.                   *)
(***************************************************************************)
C1_RoundTrip ==
    SupportedDict(props_in) =>
        /\ Encoded => pc_in # "raised"
        /\ RoundTripDone => exc = NoExc /\ props_out = Plain(props_in)

\* the same with the empty list (and the dictionaries holding one) left out:
\* this part of the claim holds
RECURSIVE HasEmptyList(_)
HasEmptyList(v) ==
    \/ IsList(v) /\ (v[2] = <<>> \/ \E i \in 1..Len(v[2]) : HasEmptyList(v[2][i]))
    \/ IsDict(v) /\ \E i \in 1..Len(v[2]) : HasEmptyList(v[2][i][2])

C1_RoundTripNonEmpty ==
    SupportedDict(props_in) /\ ~HasEmptyList(props_in) =>
        /\ Encoded => pc_in # "raised"
        /\ RoundTripDone => exc = NoExc /\ props_out = Plain(props_in)

C1_Witness ==
    /\ RoundTripDone
    /\ props_in = PyDict(<< <<PyStr("k"), PyList(<<CData("uint32_t", 5), CData("uint32_t", 5)>>)>> >>)
    /\ props_out = PyDict(<< <<PyStr("k"), PyList(<<PyInt(5), PyInt(5)>>)>> >>)

(***************************************************************************)
(* C2.  Encode never leaks on failure: when nvlist_in fails after it       *)
(* allocated its container, the container is released, and allocations and *)
(* frees are balanced, when the caller sees the error.                     *)
(* The code does not do this: _dict_to_nvlist runs before the try block.   *)
(***************************************************************************)
C2_NoLeakOnFailure ==
    pc_in = "raised" /\ nvlist.id # NULL =>
        nvlist.id \notin st.live /\ st.allocs = st.frees

(***************************************************************************)
(* C3.  Every container is destroyed exactly once: none is freed twice,    *)
(* none is used after it was freed, and none stays allocated once the      *)
(* scope that owns it has exited.                                          *)
(* The last part fails with C2's leak; the first two hold.                 *)
(***************************************************************************)
NoScopeOpen == pc_in \in {"idle", "raised", "exited"} /\ pc_out # "body"

C3_DestroyedExactlyOnce ==
    /\ ~st.dfree
    /\ ~st.uaf
    /\ NoScopeOpen => st.live = {}

C3_NoDoubleFreeNoUseAfterFree ==
    /\ ~st.dfree
    /\ ~st.uaf
    /\ pc_in = "exited" /\ pc_out # "body" => st.live = {}

(***************************************************************************)
(* C4.  Array-of-maps release: whatever way the encoding of a list of      *)
(* dictionaries ends (an element's allocation or encoding fails, the       *)
(* array attach fails, or all succeeds), every container allocated for an  *)
(* element has been freed, once.                                           *)
(***************************************************************************)
C4_ArrayElementsReleased ==
    /\ st.elems \cap st.live = {}
    /\ st.elems \subseteq st.freed
    /\ ~st.dfree

\* the allocation of the second element failed after the first was allocated
C4_Witness ==
    /\ pc_in = "raised"
    /\ exc = MemoryError("nvlist_alloc failed")
    /\ Cardinality(st.elems) = 1
    /\ st.elems \subseteq st.freed

(***************************************************************************)
(* C5.  Array homogeneity: a list with an element whose kind differs from  *)
(* the first element's (integers of all widths being one kind) is refused  *)
(* with the TypeError naming the type of the first element and that of a   *)
(* differing one, and no pair is attached under the key.                   *)
(* The code does not do this for a bool among integers (C6).               *)
(***************************************************************************)
\* the first item of the dictionary given to nvlist_in, when its key is a string
\* and its value a list
FirstIsList ==
    /\ Encoded
    /\ Len(props_in[2]) >= 1
    /\ IsBasestring(props_in[2][1][1])
    /\ IsList(props_in[2][1][2])
FirstList == props_in[2][1][2][2]
Differing(array) == {i \in 1..Len(array) : Kind(array[i]) # Kind(array[1])}

C5_ArrayHomogeneity ==
    FirstIsList /\ Differing(FirstList) # {} =>
        /\ pc_in = "raised"
        /\ exc[1] = "TypeError"
        /\ exc[2] = "Array has elements of different types"
        /\ exc[3][1] = TypeName(FirstList[1])
        /\ \E i \in Differing(FirstList) : exc[3][2] = TypeName(FirstList[i])
        /\ \A j \in 1..Len(nvlist.pairs) : nvlist.pairs[j][1] # props_in[2][1][1][2]

(***************************************************************************)
(* C6.  A list holding both a bool and an integer, in either order, is     *)
(* refused with the TypeError of mixed element types.                      *)
(* The code does not do this: bool is an instance of numbers.Integral.     *)
(***************************************************************************)
C6_BoolIntListRefused ==
    /\ FirstIsList
    /\ \E i \in 1..Len(FirstList) : IsBool(FirstList[i])
    /\ \E i \in 1..Len(FirstList) : TypeName(FirstList[i]) = "int"
    => /\ pc_in = "raised"
       /\ exc[1] = "TypeError"
       /\ exc[2] = "Array has elements of different types"

(***************************************************************************)
(* C7.  Unsupported inputs are rejected.  As claimed: a dictionary holding *)
(* at any depth, or as the first element of a list, a value of a kind      *)
(* outside None, bool, string, integer, dictionary and list fails with     *)
(* 'Unsupported value type', one with a key that is no string fails with   *)
(* 'Unsupported key type'.                                                 *)
(***************************************************************************)
UnsupportedKind(v) ==
    /\ Kind(v) \notin {"NoneType", "bool", "str", "int", "dict", "list"}
    /\ ~(IsCData(v) /\ v[2][1] = "boolean_t")

RECURSIVE HasUnsupportedValue(_)
HasUnsupportedValue(d) ==
    \E i \in 1..Len(d[2]) :
        LET v == d[2][i][2]
        IN  \/ UnsupportedKind(v)
            \/ IsDict(v) /\ HasUnsupportedValue(v)
            \/ IsList(v) /\ v[2] # <<>> /\ UnsupportedKind(v[2][1])
            \/ IsList(v) /\ \E j \in 1..Len(v[2]) :
                   IsDict(v[2][j]) /\ HasUnsupportedValue(v[2][j])

RECURSIVE HasNonStringKey(_)
HasNonStringKey(d) ==
    \E i \in 1..Len(d[2]) :
        LET v == d[2][i][2]
        IN  \/ ~IsBasestring(d[2][i][1])
            \/ IsDict(v) /\ HasNonStringKey(v)
            \/ IsList(v) /\ \E j \in 1..Len(v[2]) :
                   IsDict(v[2][j]) /\ HasNonStringKey(v[2][j])

C7_UnsupportedRejectedAsClaimed ==
    /\ Encoded /\ HasUnsupportedValue(props_in) /\ ~HasNonStringKey(props_in) =>
           pc_in = "raised" /\ exc[2] = "Unsupported value type"
    /\ Encoded /\ HasNonStringKey(props_in) /\ ~HasUnsupportedValue(props_in) =>
           pc_in = "raised" /\ exc[2] = "Unsupported key type"

\* The error of the first offending item of a dictionary, when the items before
\* it are None, bools, strings and integers that fit; NoExc when the first other
\* item is none of the cases of the claim.
RECURSIVE LeadFault(_, _)
LeadFault(items, i) ==
    IF i > Len(items) THEN NoExc
    ELSE LET k == items[i][1]
             v == items[i][2]
             other == IF IsList(v)
                      THEN {j \in 1..Len(v[2]) : TypeName(v[2][j]) # TypeName(v[2][1])}
                      ELSE {}
         IN  IF ~IsBasestring(k)
             THEN TypeError("Unsupported key type", <<TypeName(k)>>)
             ELSE IF SupportedScalar(k[2], v) /\ ~IsCData(v)
             THEN LeadFault(items, i + 1)
             ELSE IF UnsupportedKind(v)
             THEN TypeError("Unsupported value type", <<TypeName(v)>>)
             ELSE IF IsList(v) /\ v[2] # <<>> /\ UnsupportedKind(v[2][1])
             THEN IF other = {}
                  THEN TypeError("Unsupported value type", <<TypeName(v[2][1])>>)
                  ELSE TypeError("Array has elements of different types",
                                 <<TypeName(v[2][1]),
                                   TypeName(v[2][CHOOSE j \in other : \A m \in other : j <= m])>>)
             ELSE IF IsDict(v)
             THEN LeadFault(v[2], 1)
             ELSE NoExc

\* As amended: encode never succeeds on such an input; the error is that of
\* the first offending item: 'Unsupported key type', 'Unsupported value type',
\* or the TypeError of mixed element types when the unsupported first element
\* of a list is followed by an element of another type.
C7_UnsupportedNeverEncoded ==
    /\ pc_in # "idle" /\ (HasUnsupportedValue(props_in) \/ HasNonStringKey(props_in)) =>
           pc_in = "raised" /\ exc # NoExc
    /\ Encoded /\ LeadFault(props_in[2], 1) # NoExc =>
           pc_in = "raised" /\ exc = LeadFault(props_in[2], 1)

\* an unsupported value two dictionaries deep
C7_Witness ==
    /\ pc_in = "raised"
    /\ st.failAt = 0
    /\ props_in = PyDict(<< <<PyStr("k"),
                             PyDict(<< <<PyStr("y"),
                                         PyDict(<< <<PyStr("x"), PyFloat(1)>> >>)>> >>)>> >>)
    /\ exc = TypeError("Unsupported value type", <<"float">>)

(***************************************************************************)
(* C8.  Null fixpoint: None is encoded as a DATA_TYPE_BOOLEAN pair without *)
(* value, a DATA_TYPE_BOOLEAN pair is decoded as None, never as True, and  *)
(* {k: None} comes back from a round trip as {k: None}.                    *)
(***************************************************************************)
C8_NullFixpoint ==
    /\ pc_in = "body" =>
           \A i \in 1..Len(props_in[2]) :
               IsNone(props_in[2][i][2]) =>
                   \E j \in 1..Len(nvlist.pairs) :
                       nvlist.pairs[j] = <<props_in[2][i][1][2], "boolean", 0>>
    /\ pc_out = "exited" /\ exc = NoExc =>
           \A j \in 1..Len(nvlistp.pairs) :
               nvlistp.pairs[j][2] = "boolean" =>
                   \E i \in 1..Len(props_out[2]) :
                       props_out[2][i] = <<PyStr(nvlistp.pairs[j][1]), PyNone>>
    /\ RoundTripDone /\ Len(props_in[2]) = 1 /\ IsNone(props_in[2][1][2]) =>
           props_out = props_in

C8_Witness ==
    /\ RoundTripDone
    /\ props_in = PyDict(<< <<PyStr("k"), PyNone>> >>)
    /\ nvlistp.pairs = << <<"k", "boolean", 0>> >>
    /\ props_out = PyDict(<< <<PyStr("k"), PyNone>> >>)

(***************************************************************************)
(* C9.  Integer width resolution: an integer without annotation is         *)
(* attached with the type the table gives for its key ("rewind-request"    *)
(* and "type": uint32; "N_MORE_ERRORS" and "pool_context": int32) and as   *)
(* uint64 under any other key; an annotated integer is attached with the   *)
(* type of its annotation, also under a key of the table.  The same for    *)
(* the lists of integers.                                                  *)
(***************************************************************************)
\* the nvlist type of an integer C type: uchar_t is "byte", <x>_t is <x>
IsSuffixOf(suffix, ctype) ==
    IF ctype = "uchar_t" THEN suffix = "byte" ELSE suffix \o "_t" = ctype

HasPair(pairs, name, val) ==
    \E j \in 1..Len(pairs) : pairs[j][1] = name /\ pairs[j][3] = val

TypeOfPair(pairs, name) ==
    LET j == CHOOSE j \in 1..Len(pairs) : pairs[j][1] = name
    IN  pairs[j][2]

C9_IntegerWidth ==
    pc_in = "body" =>
        \A i \in 1..Len(props_in[2]) :
            LET k == props_in[2][i][1][2]
                v == props_in[2][i][2]
                ints == [j \in 1..Len(v[2]) |-> ToCInt(v[2][j])]
            IN  /\ TypeName(v) = "int" =>
                       /\ HasPair(nvlist.pairs, k, v[2])
                       /\ TypeOfPair(nvlist.pairs, k) = SpecWidth(k)
                /\ IsCData(v) /\ v[2][1] \in IntCTypes =>
                       /\ HasPair(nvlist.pairs, k, v[2][2])
                       /\ IsSuffixOf(TypeOfPair(nvlist.pairs, k), v[2][1])
                /\ IsList(v) /\ v[2] # <<>> /\ TypeName(v[2][1]) = "int" =>
                       /\ HasPair(nvlist.pairs, k, ints)
                       /\ TypeOfPair(nvlist.pairs, k) = SpecWidth(k) \o "_array"
                /\ IsList(v) /\ v[2] # <<>> /\ IsCData(v[2][1]) /\ v[2][1][2][1] \in IntCTypes =>
                       /\ HasPair(nvlist.pairs, k, ints)
                       /\ \E sfx \in ScalarSuffixes :
                              /\ IsSuffixOf(sfx, v[2][1][2][1])
                              /\ TypeOfPair(nvlist.pairs, k) = sfx \o "_array"

\* an annotated integer under a key of the table keeps its own type
C9_Witness ==
    /\ pc_in = "body"
    /\ props_in = PyDict(<< <<PyStr("type"), CData("int8_t", -1)>> >>)
    /\ nvlist.pairs = << <<"type", "int8", -1>> >>

(***************************************************************************)
(* C10.  No partial dictionary on a decoding failure: when the decoding    *)
(* of nvlist_out fails part-way (a value read reports an error, a pair has *)
(* a type _type_info does not list), the caller's dictionary holds none of *)
(* the pairs decoded before the failure.                                   *)
(* The code does not do this: it decodes into the caller's dictionary.     *)
(***************************************************************************)
C10_NoPartialMap ==
    pc_out = "exited" /\ exc[1] \in {"RuntimeError", "KeyError"} =>
        props_out = PyDict(<<>>)

(***************************************************************************)
(* C11.  Output-container release: when the with-block of nvlist_out ends  *)
(* (its body returned or raised, the decoding returned or raised) the      *)
(* container the native call stored in the output parameter is freed,      *)
(* once; when the parameter is still NULL no free is issued.               *)
(***************************************************************************)
C11_OutputReleasedOnce ==
    [][pc_out = "body" /\ pc_out' = "exited" =>
          /\ ~st'.dfree
          /\ nvlistp.id # NULL =>
                 /\ nvlistp.id \in st.live
                 /\ nvlistp.id \notin st'.live
                 /\ st'.frees = st.frees + 1
          /\ nvlistp.id = NULL => st'.frees = st.frees /\ st'.live = st.live]_vars

\* the decoding raised on a type _type_info does not list, the container is freed
C11_Witness ==
    /\ pc_out = "exited"
    /\ exc[1] = "KeyError"
    /\ nvlistp.id # NULL
    /\ nvlistp.id \in st.freed
    /\ nvlistp.id \notin st.live

(***************************************************************************)
(* C12.  On a normal exit from the with-block of nvlist_out the caller's   *)
(* dictionary holds the decoded pairs of the container the native call     *)
(* produced and nothing else: what it held before the block is gone.       *)
(***************************************************************************)
\* the dictionary a container stands for: one item per pair, by the pair's type
RECURSIVE ValueOfPair(_, _)
ValueOfPair(typeid, payload) ==
    CASE typeid = "boolean" -> PyNone
      [] typeid = "boolean_value" -> PyBool(payload # 0)
      [] typeid = "string" -> PyStr(payload)
      [] typeid = "nvlist" ->
             DictLiteral([i \in 1..Len(payload) |->
                             <<PyStr(payload[i][1]), ValueOfPair(payload[i][2], payload[i][3])>>])
      [] typeid \in ArraySuffixes ->
             PyList([i \in 1..Len(payload) |-> ValueOfPair(ElemSuffix(typeid), payload[i])])
      [] OTHER -> PyInt(payload)

DictOfPairs(pairs) == ValueOfPair("nvlist", pairs)

C12_OutputDictIsTheContainer ==
    [][pc_out = "body" /\ pc_out' = "exited" /\ exc' = NoExc =>
          props_out' = DictOfPairs(nvlistp.pairs)]_vars

\* a native function's container of two pairs, decoded
C12_Witness ==
    /\ pc_out = "exited"
    /\ pc_in = "idle"
    /\ exc = NoExc
    /\ nvlistp.pairs = << <<"a", "string", "x">>, <<"b", "uint64", 5>> >>
    /\ props_out = PyDict(<< <<PyStr("a"), PyStr("x")>>, <<PyStr("b"), PyInt(5)>> >>)

(***************************************************************************)
(* C13.  Key order.  As claimed: encode attaches the pairs in the order in *)
(* which the keys were inserted into the dictionary, and the decoded       *)
(* dictionary has its keys in the order of the pairs of the container, so  *)
(* that a round trip gives the keys back in their original order.          *)
(***************************************************************************)
KeyNames(items) == [i \in 1..Len(items) |-> items[i][1][2]]
PairNames(pairs) == [i \in 1..Len(pairs) |-> pairs[i][1]]
Orderings(n) == {f \in [1..n -> 1..n] : \A i, j \in 1..n : i # j => f[i] # f[j]}

\* the sequences of insertions that build the dictionary d
InsertionsOf(d) ==
    {ins \in {[i \in 1..Len(d[2]) |-> d[2][f[i]]] : f \in Orderings(Len(d[2]))} :
        DictLiteral(ins) = d}

RECURSIVE IterationOrderKept(_, _)
IterationOrderKept(items, pairs) ==
    /\ PairNames(pairs) = KeyNames(items)
    /\ \A i \in 1..Len(items) :
           IsDict(items[i][2]) => IterationOrderKept(items[i][2][2], pairs[i][3])

RECURSIVE SameKeyOrder(_, _)
SameKeyOrder(d1, d2) ==
    /\ KeyNames(d1[2]) = KeyNames(d2[2])
    /\ \A i \in 1..Len(d1[2]) :
           IsDict(d1[2][i][2]) =>
               IsDict(d2[2][i][2]) /\ SameKeyOrder(d1[2][i][2], d2[2][i][2])

InSlotOrder(items) ==
    \A i, j \in 1..Len(items) : i < j => SlotOf(items[i][1]) < SlotOf(items[j][1])

OneIntegerList ==
    /\ Encoded
    /\ Len(props_in[2]) = 1
    /\ FirstIsList
    /\ FirstList # <<>>
    /\ \A i \in 1..Len(FirstList) :
           \/ TypeName(FirstList[i]) = "int"
           \/ IsCData(FirstList[i]) /\ FirstList[i][2][1] \in IntCTypes

\* the type the first element gives the array, without "_array"
ResolvedSuffix(name, first) ==
    IF IsCData(first)
    THEN CHOOSE sfx \in ScalarSuffixes : IsSuffixOf(sfx, first[2][1])
    ELSE SpecWidth(name)

IntsOf(array) == [i \in 1..Len(array) |-> ToCInt(array[i])]

AllFit(name, array) ==
    \A i \in 1..Len(array) : FitsCType(ResolvedSuffix(name, array[1]), ToCInt(array[i]))

AttachedAsOneArray(name, array) ==
    /\ pc_in # "raised"
    /\ HasPair(nvlist.pairs, name, IntsOf(array))
    /\ TypeOfPair(nvlist.pairs, name) = ResolvedSuffix(name, array[1]) \o "_array"

OneAnnotatedScalar ==
    /\ Encoded
    /\ Len(props_in[2]) = 1
    /\ IsBasestring(props_in[2][1][1])
    /\ IsCData(props_in[2][1][2])
    /\ props_in[2][1][2][2][1] \in CTypes

\* the type of the scalar pair of a C type
ScalarTypeOf(ctype) ==
    IF ctype = "boolean_t" THEN "boolean_value"
    ELSE CHOOSE sfx \in ScalarSuffixes : IsSuffixOf(sfx, ctype)

C15_AnnotatedScalarsAttached ==
    OneAnnotatedScalar =>
        LET name == props_in[2][1][1][2]
            ctype == props_in[2][1][2][2][1]
            n == props_in[2][1][2][2][2]
        IN  /\ pc_in # "raised"
            /\ nvlist.pairs = << <<name, ScalarTypeOf(ctype), n>> >>
            /\ RoundTripDone /\ ctype = "boolean_t" =>
                   props_out = PyDict(<< <<PyStr(name), PyBool(n # 0)>> >>)
(***************************************************************************)
(* C16: whatever the threads and the interleaving of their first accesses  *)
(* to the lazy proxies, libzfs_core_init returns success at most once and  *)
(* each library is opened by dlopen at most once; the flag _inited goes    *)
(* from unset to set once, after the successful call, and is never unset   *)
(* again; and nothing is ever looked up in a library that is not open.     *)
(***************************************************************************)
C16_InitializedOnce ==
    /\ hist.init_ok <= 1
    /\ hist.sets <= hist.init_ok
    /\ _inited <=> hist.sets = 1
    /\ hist.sets < hist.init_ok => \E t \in Threads : At(t, "li_ret") /\ th[t].ret = 0
    /\ \A l \in Libraries : /\ hist.dlopen_ok[l] <= 1
                             /\ _lib[l] # None <=> hist.dlopen_ok[l] = 1
    /\ ~hist.unloaded_use

\* a thread that lost the race: it passed the first test, got the lock after the
\* other thread had initialized, and stands before the second test
C16_Witness ==
    \E t \in Threads :
        /\ At(t, "li_check2") /\ _lock = t
        /\ _inited /\ hist.init_ok = 1 /\ hist.init_calls = 1

(***************************************************************************)
(* C17: when libzfs_core_init returns a status other than 0, the access    *)
(* that called it raises ZFSInitializationFailed with that status, has     *)
(* called libzfs_core_init once only, and does not return the attribute    *)
(* that was asked for (so the native function is not called either).       *)
(***************************************************************************)
C17_InitFailureRaised ==
    \A t \in Threads :
        th[t].ret # 0 =>
            /\ th[t].inits = 1
            /\ ~th[t].attr
            /\ \/ At(t, "li_ret")
               \/ /\ th[t].pc \in {"raised", "idle"}
                  /\ th[t].error = ZFSInitializationFailed(th[t].ret)

C17_Witness ==
    \E t \in Threads :
        /\ At(t, "raised") /\ th[t].ret = 12
        /\ th[t].error = ZFSInitializationFailed(12)
        /\ ~_inited /\ _lock = 0

(***************************************************************************)
(* What C18 to C20 speak of: a call that is over, the compound exception   *)
(* of each function, the holds of a call of lzc_release given as lists.    *)
(***************************************************************************)
Done(fn) == op.fn = fn /\ res.status # "pending"
CompoundOf(fn) ==
    CASE fn = "lzc_snapshot" -> "SnapshotFailure"
      [] fn = "lzc_destroy_snaps" -> "SnapshotDestructionFailure"
      [] fn = "lzc_bookmark" -> "BookmarkFailure"
      [] fn = "lzc_destroy_bookmarks" -> "BookmarkDestructionFailure"
      [] fn = "lzc_hold" -> "HoldFailure"
      [] fn = "lzc_release" -> "HoldReleaseFailure"
MultiTarget == {"lzc_snapshot", "lzc_destroy_snaps", "lzc_bookmark",
                "lzc_destroy_bookmarks", "lzc_hold", "lzc_release"}
\* the names requested: the list given, or the keys of the dictionary given
Requested ==
    IF op.fn \in {"lzc_bookmark", "lzc_hold", "lzc_release"} THEN keys(op.targets)
    ELSE op.targets
\* the call reaches _handleErrList
Handled ==
    /\ op.fn \in MultiTarget /\ res.status # "pending"
    /\ op.fn = "lzc_hold" => op.ret \notin {EBADF, ENOENT}
    /\ op.fn = "lzc_release" => \A i \in 1..Len(op.targets) : op.targets[i][2][1] = "list"
RaisedCompound == res.status = "raised" /\ res.exc[1] = CompoundOf(op.fn)

(***************************************************************************)
(* C18: in the six operations on several targets, status 0 raises nothing, *)
(* whatever the error list; a non-zero status with an empty error list     *)
(* raises the compound exception of the operation with one error, named    *)
(* after the target when one target was requested and unnamed otherwise; a *)
(* non-zero status with a non-empty error list raises it with one error    *)
(* for each entry of the list.                                             *)
(***************************************************************************)
C18_CompoundFailures ==
    Handled =>
        /\ op.ret = 0 => res.status = "returned"
        /\ op.ret # 0 /\ Len(op.errlist) = 0 =>
               /\ RaisedCompound
               /\ Len(res.exc[3]) = 1
               /\ res.exc[3][1][2] = IF Len(Requested) = 1 THEN Requested[1] ELSE NoName
        /\ op.ret # 0 /\ Len(op.errlist) > 0 =>
               /\ RaisedCompound
               /\ Len(res.exc[3]) = Len(op.errlist)

\* lzc_snapshot of two snapshots that exist: the list of two errors is built, and
\* the call of SnapshotFailure raises TypeError
C18_Witness ==
    /\ Done("lzc_snapshot") /\ op.ret = EEXIST
    /\ op.targets = <<"q/f@s", "p/f@s">>
    /\ op.errlist = << <<"q/f@s", EEXIST>>, <<"p/f@s", EEXIST>> >>
    /\ res.built = <<Err("SnapshotExists", "q/f@s"), Err("SnapshotExists", "p/f@s")>>
    /\ res.status = "raised" /\ res.exc[1] = "TypeError"

\* the part of C18 that does not depend on the exception raised: status 0 raises
\* nothing, and when every call of the mapper returns, the list built has one
\* element for an empty error list and one for each entry otherwise
C18_ErrorsListBuilt ==
    Handled =>
        /\ op.ret = 0 => res.status = "returned"
        /\ op.ret # 0 => res.status = "raised"
        /\ op.ret # 0 /\ res.exc[1] = "TypeError" =>
               Len(res.built) = IF Len(op.errlist) = 0 THEN 1 ELSE Len(op.errlist)

(***************************************************************************)
(* C19: lzc_hold, for every non-zero status but those of a bad cleanup     *)
(* descriptor, and lzc_release, for every non-zero status, raise           *)
(* HoldFailure and HoldReleaseFailure, whatever the error list and the     *)
(* holds requested (none, one, several), and every element of the errors   *)
(* of the exception is an error object.                                    *)
(***************************************************************************)
C19_HoldFailuresRaised ==
    Handled /\ op.fn \in {"lzc_hold", "lzc_release"} /\ op.ret # 0 =>
        /\ RaisedCompound
        /\ \A i \in 1..Len(res.exc[3]) : res.exc[3][i][1] # "NoneType"

\* two holds, a status that is about neither, an empty error list: the mapper
\* is called with None for the name and raises KeyError at holds[name]
C19_Witness ==
    /\ Done("lzc_hold") /\ op.ret = EPERM
    /\ keys(op.targets) = <<"q/f@s", "p/f@s">> /\ op.errlist = <<>>
    /\ res.status = "raised" /\ res.exc = KeyError(NoName)

\* the mappers of lzc_hold and lzc_release always return an error object
C19_MappersReturnErrors ==
    Handled /\ op.fn \in {"lzc_hold", "lzc_release"} /\ op.ret # 0 =>
        /\ res.exc[1] \notin {"KeyError", "IndexError"}
        /\ \A i \in 1..Len(res.built) : res.built[i][1] # "NoneType"

(***************************************************************************)
(* C20: lzc_send with a name in flags that is neither 'embedded_data' nor  *)
(* 'large_blocks', wherever it stands in the list, raises and the native   *)
(* lzc_send is not called; otherwise the native lzc_send is called with    *)
(* the bitwise OR of the flags listed, whatever their order and however    *)
(* often each is listed.                                                   *)
(***************************************************************************)
C20_SendFlags ==
    Done("lzc_send") =>
        IF \E i \in 1..Len(op.targets) : op.targets[i] \notin {"embedded_data", "large_blocks"}
        THEN res.status = "raised" /\ res.sent = <<>>
        ELSE res.sent = << (IF "embedded_data" \in Range(op.targets) THEN 1 ELSE 0)
                           + (IF "large_blocks" \in Range(op.targets) THEN 2 ELSE 0) >>

\* a flag listed twice, the other between: the native call gets both bits
C20_Witness ==
    /\ Done("lzc_send") /\ op.ret = 0
    /\ op.targets = <<"large_blocks", "embedded_data", "large_blocks">>
    /\ res.status = "returned" /\ res.sent = <<3>>

\* an unknown name after a known one: ValueError, nothing is sent
C20_WitnessUnknown ==
    /\ Done("lzc_send")
    /\ op.targets = <<"embedded_data", "UNKNOWN">>
    /\ res.exc = ValueError("UNKNOWN") /\ res.sent = <<>>

(***************************************************************************)
(* C21: when nvlist_in fails with 'Unsupported value type', 'Unsupported   *)
(* key type' or 'Array has elements of different types', no native call    *)
(* (allocation or attach) was made for this call before the error, and no  *)
(* allocation of this call is outstanding when the error is reported.      *)
(***************************************************************************)
UsageError ==
    /\ pc_in = "raised" /\ exc[1] = "TypeError"
    /\ exc[2] \in {"Unsupported value type", "Unsupported key type",
                   "Array has elements of different types"}

C21_UsageErrorsBeforeNative ==
    UsageError => st.calls = 0 /\ st.allocs = 0 /\ nvlist.id \notin st.live

\* a float for the only value: the root container was allocated before the
\* value was looked at, and stays allocated
C21_Witness ==
    /\ UsageError /\ exc[2] = "Unsupported value type"
    /\ Len(props_in[2]) = 1 /\ props_in[2][1][2] = PyFloat(1)
    /\ st.calls = 1 /\ st.allocs = 1 /\ st.frees = 0
    /\ nvlist.id \in st.live

(***************************************************************************)
(* C22: every failure of nvlist_in carries the name of the key it failed   *)
(* at: the name is the message or one of the arguments of the exception.   *)
(***************************************************************************)
ExcStrings(e) == {e[2]} \cup {e[3][i] : i \in 1..Len(e[3])}

C22_FailureNamesKey ==
    pc_in = "raised" =>
        \E i \in 1..Len(props_in[2]) :
            /\ IsBasestring(props_in[2][i][1])
            /\ props_in[2][i][1][2] \in ExcStrings(exc)

\* {"k": 1.0} refused with TypeError('Unsupported value type float')
C22_Witness ==
    /\ pc_in = "raised"
    /\ Len(props_in[2]) = 1 /\ props_in[2][1] = <<PyStr("k"), PyFloat(1)>>
    /\ exc = TypeError("Unsupported value type", <<"float">>)

(***************************************************************************)
(* C23: the decoding at the end of the with-block of nvlist_out, whether   *)
(* it returns or raises, leaves the container as it was: no allocation, no *)
(* free but the one of nvlist_out itself, on nvlistp[0], after the         *)
(* decoding, and no access to a container that is not live.                *)
(***************************************************************************)
C23_DecodeReadOnly ==
    [][NvlistOutExit =>
          /\ nvlistp' = nvlistp
          /\ st'.allocs = st.allocs
          /\ st'.elems = st.elems
          /\ st'.frees = st.frees + (IF nvlistp.id # NULL THEN 1 ELSE 0)
          /\ st'.live = st.live \ {nvlistp.id}
          /\ st'.freed \subseteq st.freed \cup {nvlistp.id}
          /\ st'.dfree = st.dfree /\ st'.uaf = st.uaf]_vars

\* a container with a nested container and one with an array of containers
\* have been decoded, or the decoding has failed at a value read
C23_Witness ==
    /\ pc_out = "exited" /\ exc = NoExc
    /\ nvlistp.id # NULL /\ nvlistp.id \in st.freed /\ st.frees = 1
    /\ Len(nvlistp.pairs) = 1 /\ nvlistp.pairs[1][2] = "nvlist_array"
    /\ Len(props_out[2]) = 1

C23_WitnessNested ==
    /\ pc_out = "exited" /\ exc = NoExc
    /\ nvlistp.id # NULL /\ nvlistp.id \in st.freed
    /\ Len(nvlistp.pairs) = 1 /\ nvlistp.pairs[1][2] = "nvlist"
    /\ Len(props_out[2]) = 1 /\ IsDict(props_out[2][1][2])

(***************************************************************************)
(* C24: when nvlist_in reaches its yield it has made one allocation for    *)
(* the dictionary, one for every dictionary that is a value and one for    *)
(* every dictionary that is an element of a list, at any depth, and no     *)
(* other; all of them but the container it yields have been freed.         *)
(***************************************************************************)
RECURSIVE Levels(_)
RECURSIVE LevelsOfSeq(_, _)

\* the number of dictionaries in v, v included
Levels(v) ==
    IF IsDict(v) THEN 1 + LevelsOfSeq([i \in 1..Len(v[2]) |-> v[2][i][2]], 1)
    ELSE IF IsList(v) THEN LevelsOfSeq(v[2], 1)
    ELSE 0

LevelsOfSeq(vs, i) ==
    IF i > Len(vs) THEN 0 ELSE Levels(vs[i]) + LevelsOfSeq(vs, i + 1)

C24_OneAllocationPerLevel ==
    [][pc_in = "idle" /\ pc_in' = "body" =>
          /\ st'.allocs = Levels(props_in')
          /\ st'.frees = st'.allocs - 1
          /\ Cardinality(st'.freed) = st'.frees
          /\ nvlist'.id \in st'.live /\ nvlist'.id \notin st'.freed
          /\ st'.live \ st.live = {nvlist'.id}
          /\ ~st'.dfree]_vars

\* a list of two dictionaries, and a dictionary in a dictionary in the
\* dictionary: three allocations, two frees
C24_Witness ==
    /\ pc_in = "body" /\ nvlistp.id = NULL
    /\ Len(props_in[2]) = 1 /\ IsList(props_in[2][1][2])
    /\ Len(props_in[2][1][2][2]) = 2 /\ IsDict(props_in[2][1][2][2][1])
    /\ st.allocs = 3 /\ st.frees = 2 /\ st.live = {nvlist.id}

C24_WitnessNested ==
    /\ pc_in = "body" /\ nvlistp.id = NULL
    /\ Len(props_in[2]) = 1 /\ IsDict(props_in[2][1][2])
    /\ Levels(props_in) = 3
    /\ st.allocs = 3 /\ st.frees = 2 /\ st.live = {nvlist.id}

(***************************************************************************)
(* C25: under every interleaving, a thread is at "return getattr(self._lib,*)
(* name)" of LazyInit.__getattr__, or has the attribute from it, only      *)
(* after a call of libzfs_core_init has returned 0 and the flag has been   *)
(* set; and a thread is between the second test and the end of the         *)
(* with-block only while it holds the lock, so a thread that finds the     *)
(* lock taken goes on only when the holder has left the block.             *)
(***************************************************************************)
LlPositions == {"ll_check1", "ll_acquire", "ll_check2", "ll_dlopen",
                "ll_release", "ll_getattr"}

\* thread t is past the with-block of LazyInit.__getattr__
PastInit(t) ==
    /\ th[t].lib = "libzfs_core" /\ th[t].back = "done"
    /\ th[t].pc \in LlPositions \cup {"returned"}

\* thread t is inside the with-block of LazyInit.__getattr__
InLocked(t) ==
    \/ th[t].pc \in {"li_check2", "li_call", "li_ret", "li_release"}
    \/ th[t].pc \in LlPositions /\ th[t].back = "li_call"

C25_NoUseBeforeInit ==
    \A t \in Threads :
        /\ PastInit(t) => _inited /\ hist.init_ok = 1
        /\ InLocked(t) => _lock = t

\* thread t has the attribute from its first access without having called
\* libzfs_core_init: thread u called it, and t passed the tests after that
C25_Witness ==
    \E t, u \in Threads :
        /\ t # u
        /\ At(t, "returned") /\ PastInit(t) /\ th[t].attr
        /\ th[t].n = 1 /\ th[t].inits = 0
        /\ th[u].inits = 1 /\ th[u].ret = 0

\* thread t waits for the lock that thread u holds during the call
C25_WitnessWaiting ==
    \E t, u \in Threads :
        /\ At(t, "li_acquire") /\ At(u, "li_call") /\ _lock = u /\ ~_inited

(***************************************************************************)
(* C26: when libzfs_core_init returns a status other than 0, the raise     *)
(* leaves the lock free and the flag unset; an access that finds the flag  *)
(* unset under the lock goes on to call libzfs_core_init; the step after a *)
(* call of libzfs_core_init that returned 0 sets the flag; and every       *)
(* access, of any thread, comes to its end (it returns or raises, none     *)
(* waits for ever), so that in the end every thread is back at its caller. *)
(***************************************************************************)
C26_FailedInitReusable ==
    /\ [][\A t \in Threads :
            At(t, "li_ret") /\ th[t].ret # 0 /\ th'[t] # th[t] =>
                /\ _lock = t /\ _lock' = 0
                /\ ~_inited /\ ~_inited'
                /\ th'[t].pc = "raised"]_vars
    /\ [][\A t \in Threads :
            At(t, "li_check2") /\ ~_inited /\ th'[t] # th[t] =>
                th'[t].pc = "ll_check1" /\ th'[t].back = "li_call"]_vars
    /\ [][\A t \in Threads :
            th[t].back = "li_call" /\ At(t, "ll_getattr") /\ th'[t] # th[t] =>
                th'[t].pc = "li_call"]_vars
    /\ [][\A t \in Threads :
            At(t, "li_ret") /\ th[t].ret = 0 /\ th'[t] # th[t] => _inited']_vars
    /\ <>[](\A t \in Threads : At(t, "idle"))

\* libzfs_core_init has failed once; a later access called it again, got 0,
\* set the flag and has the attribute
C26_Witness ==
    \E t \in Threads :
        /\ hist.init_calls = 2 /\ hist.init_ok = 1 /\ _inited /\ _lock = 0
        /\ At(t, "returned") /\ th[t].attr /\ th[t].inits = 1 /\ th[t].ret = 0

\* a thread waits for the lock while the holder's call is about to fail
C26_WitnessWaiting ==
    \E t, u \in Threads :
        /\ At(t, "li_acquire") /\ At(u, "li_ret") /\ th[u].ret # 0 /\ _lock = u

(***************************************************************************)
(* C27: when the with-block of nvlist_out raises, the caller's dictionary  *)
(* is what it was before the block (not cleared, nothing decoded into it,  *)
(* no value of the container read), the container, if the block produced   *)
(* one, is freed, once, and the exception of the block is the one that     *)
(* leaves nvlist_out.                                                      *)
(***************************************************************************)
C27_BodyRaiseKeepsDict ==
    [][pc_out = "body" /\ pc_out' = "exited" /\ exc' = BodyError =>
          /\ props_out' = props_out
          /\ st'.calls = 0
          /\ st'.frees = st.frees + (IF nvlistp.id # NULL THEN 1 ELSE 0)
          /\ nvlistp.id # NULL => nvlistp.id \in st'.freed /\ nvlistp.id \notin st'.live
          /\ ~st'.dfree]_vars

\* the block raised after a native function had stored a container of two
\* pairs: the dictionary still holds its old item, the container is freed
C27_Witness ==
    /\ pc_out = "exited" /\ exc = BodyError
    /\ props_out = PyDict(<< <<PyStr("old"), PyInt(5)>> >>)
    /\ nvlistp.id # NULL /\ Len(nvlistp.pairs) = 2
    /\ nvlistp.id \in st.freed /\ st.frees = 1

\* the block raised before any container was stored
C27_WitnessNull ==
    /\ pc_out = "exited" /\ exc = BodyError
    /\ props_out = PyDict(<< <<PyStr("old"), PyInt(5)>> >>)
    /\ nvlistp.id = NULL /\ st.frees = 0

(***************************************************************************)
(* C28: the encoding of a dictionary whose only item is an empty list      *)
(* under a string key succeeds when no native call fails, and decoding     *)
(* the container gives the empty list under the same key.                  *)
(***************************************************************************)
OnlyAnEmptyList ==
    /\ Len(props_in[2]) = 1
    /\ IsBasestring(props_in[2][1][1])
    /\ props_in[2][1][2] = PyList(<<>>)

C28_EmptyListSupported ==
    OnlyAnEmptyList =>
        /\ Encoded => pc_in # "raised"
        /\ RoundTripDone => exc = NoExc /\ props_out = props_in

\* nvlist_in({"k": []}) with no native failure: IndexError from array[0]
C28_Witness ==
    /\ OnlyAnEmptyList /\ props_in[2][1][1] = PyStr("k")
    /\ pc_in = "raised" /\ st.failAt = 0
    /\ exc = IndexError
    /\ nvlist.pairs = <<>>

(***************************************************************************)
(* The cast helpers of ctypes.py (and nvlist.py): uint8_t(value) and the   *)
(* others.  A Python integer has no width: it is a sign and a magnitude,   *)
(* the magnitude a sequence of limbs of 16 bits, the lowest first, without *)
(* leading zero limbs.                                                     *)
(***************************************************************************)
Limb == 2^16

RECURSIVE Trim(_)
Trim(m) == IF m # <<>> /\ m[Len(m)] = 0 THEN Trim(SubSeq(m, 1, Len(m) - 1)) ELSE m
Digit(m, i) == IF i <= Len(m) THEN m[i] ELSE 0

RECURSIVE Carry(_, _, _)
Carry(a, b, i) ==
    IF i = 0 THEN 0 ELSE (Digit(a, i) + Digit(b, i) + Carry(a, b, i - 1)) \div Limb
MagAdd(a, b) ==
    LET n == (IF Len(a) > Len(b) THEN Len(a) ELSE Len(b)) + 1
    IN  Trim([i \in 1..n |-> (Digit(a, i) + Digit(b, i) + Carry(a, b, i - 1)) % Limb])

RECURSIVE Borrow(_, _, _)
Borrow(a, b, i) ==
    IF i = 0 THEN 0
    ELSE IF Digit(a, i) - Digit(b, i) - Borrow(a, b, i - 1) < 0 THEN 1 ELSE 0
\* a - b for a >= b
MagSub(a, b) ==
    Trim([i \in 1..Len(a) |->
             (Digit(a, i) - Digit(b, i) - Borrow(a, b, i - 1) + Limb) % Limb])
MagLess(a, b) ==
    \/ Len(a) < Len(b)
    \/ /\ Len(a) = Len(b)
       /\ \E i \in 1..Len(a) : a[i] < b[i] /\ \A j \in (i + 1)..Len(a) : a[j] = b[j]

Big(neg, mag) == [neg |-> neg /\ mag # <<>>, mag |-> mag]
BigOf(n) == Big(n < 0, IF n = 0 THEN <<>> ELSE IF n < 0 THEN <<-n>> ELSE <<n>>)
BigNeg(x) == Big(~x.neg, x.mag)
BigAdd(x, y) ==
    IF x.neg = y.neg THEN Big(x.neg, MagAdd(x.mag, y.mag))
    ELSE IF MagLess(x.mag, y.mag) THEN Big(y.neg, MagSub(y.mag, x.mag))
    ELSE Big(x.neg, MagSub(x.mag, y.mag))
BigSub(x, y) == BigAdd(x, BigNeg(y))
BigLe(x, y) == ~BigSub(y, x).neg
Pow2(e) == Big(FALSE, [i \in 1..(e \div 16) + 1 |->
                          IF i = (e \div 16) + 1 THEN 2^(e % 16) ELSE 0])

\* the w low bits of a magnitude
MagLow(m, w) ==
    LET n == IF Len(m) < (w + 15) \div 16 THEN Len(m) ELSE (w + 15) \div 16
    IN  Trim([i \in 1..n |-> IF i * 16 <= w THEN m[i] ELSE m[i] % 2^(w - (i - 1) * 16)])
\* x modulo 2^w, in 0 .. 2^w - 1
BigMod2(x, w) ==
    LET low == MagLow(x.mag, w)
    IN  IF ~x.neg \/ low = <<>> THEN Big(FALSE, low) ELSE BigSub(Pow2(w), Big(FALSE, low))

\* the C types behind the names: the size in bits and the signedness.  uchar_t
\* is unsigned char; boolean_t is an enum of B_FALSE and B_TRUE, for which cffi
\* takes unsigned int
CWidth(type_name) ==
    CASE type_name \in {"uint8_t", "int8_t", "uchar_t"} -> 8
      [] type_name \in {"uint16_t", "int16_t"} -> 16
      [] type_name \in {"uint32_t", "int32_t", "boolean_t"} -> 32
      [] type_name \in {"uint64_t", "int64_t"} -> 64
CSigned(type_name) == type_name \in {"int8_t", "int16_t", "int32_t", "int64_t"}
CMin(type_name) ==
    IF CSigned(type_name) THEN BigNeg(Pow2(CWidth(type_name) - 1)) ELSE BigOf(0)
CMax(type_name) ==
    BigSub(Pow2(IF CSigned(type_name) THEN CWidth(type_name) - 1 ELSE CWidth(type_name)),
           BigOf(1))

\* a check that lets every integer pass
FfiNewUnchecked(type_name, value) == TRUE

\* "_ffi.new(type_name + '*', value)": cffi stores the integer in a new object
\* of the type and raises OverflowError when it does not fit; TRUE when it fits
_ffi_new(type_name, value) ==
    BigLe(CMin(type_name), value) /\ BigLe(value, CMax(type_name))

\* "_ffi.cast(type_name, value)": the conversion of C, the low bits of the
\* integer read as a value of the type
_ffi_cast_to(type_name, value) ==
    LET w == CWidth(type_name)
        u == BigMod2(value, w)
    IN  IF CSigned(type_name) /\ BigLe(Pow2(w - 1), u) THEN BigSub(u, Pow2(w)) ELSE u

\* _ffi_cast(type_name)(value)
_ffi_cast(type_name, value) ==
    IF ~_ffi_new(type_name, value) THEN Raised(OverflowError(type_name), <<>>)
    ELSE Returned(CData(type_name, _ffi_cast_to(type_name, value)))

\* the integers the helper of a type is called with: around the limits of the
\* type, around 0 and 2^w, and 2^64 and -2^63 with their neighbours
CastValues(type_name) ==
    LET offs == {BigOf(d) : d \in (0 - MaxOff)..MaxOff}
        marks == {CMin(type_name), CMax(type_name), BigOf(0), Pow2(CWidth(type_name)),
                  BigNeg(Pow2(CWidth(type_name))), Pow2(64), BigNeg(Pow2(63))}
    IN  {BigAdd(m, o) : m \in marks, o \in offs}
CastCalls(type_name) ==
    {[fn |-> "_ffi_cast", type_name |-> type_name, value |-> v] :
        v \in CastValues(type_name)}

\* nothing under way in the codec and in the proxies
Quiet ==
    /\ pc_in = "idle"
    /\ pc_out = "idle"
    /\ props_in = PyDict(<<>>)
    /\ nvlist = NullNvlist
    /\ props_out = PyDict(<<>>)
    /\ nvlistp = NullNvlist
    /\ exc = NoExc
    /\ st = InitSt
    /\ _inited = FALSE
    /\ _lock = 0
    /\ _lib = [l \in Libraries |-> None]
    /\ ll_lock = [l \in Libraries |-> 0]
    /\ th = [t \in Threads |-> IdleThread]
    /\ hist = [init_calls |-> 0, init_ok |-> 0, sets |-> 0,
               dlopen_ok |-> [l \in Libraries |-> 0], unloaded_use |-> FALSE]

\* one call of a helper in each behaviour
CastInit ==
    /\ Quiet
    /\ \E type_name \in CTypes : op \in CastCalls(type_name)
    /\ res = Pending
    /\ lst = NoListing

\* uint8_t(value), ..., uchar_t(value)
CastHelper ==
    /\ op.fn = "_ffi_cast" /\ res.status = "pending"
    /\ res' = _ffi_cast(op.type_name, op.value)
    /\ UNCHANGED <<op, lst, codecVars, initVars>>

CastNext == CastHelper

CastSpec == CastInit /\ [][CastNext]_vars

(***************************************************************************)
(* C29: a cast helper returns, and then an object of its C type whose      *)
(* value is the argument, exactly when the argument is in the range of     *)
(* the type (0 .. 2^w - 1 unsigned, -2^(w-1) .. 2^(w-1) - 1 signed); for   *)
(* every other argument it raises OverflowError, and never returns the     *)
(* argument modulo 2^w.                                                    *)
(***************************************************************************)
InTypeRange(type_name, v) ==
    LET w == CWidth(type_name)
    IN  IF CSigned(type_name)
        THEN BigLe(BigNeg(Pow2(w - 1)), v) /\ ~BigLe(Pow2(w - 1), v)
        ELSE ~v.neg /\ ~BigLe(Pow2(w), v)

C29_CastChecksRange ==
    op.fn = "_ffi_cast" /\ res.status # "pending" =>
        IF InTypeRange(op.type_name, op.value)
        THEN res = Returned(CData(op.type_name, op.value))
        ELSE res = Raised(OverflowError(op.type_name), <<>>)

\* uint32_t(2 ** 32) raises
C29_Witness ==
    /\ op.fn = "_ffi_cast" /\ op.type_name = "uint32_t" /\ op.value = Pow2(32)
    /\ res.status = "raised" /\ res.exc[1] = "OverflowError"

\* uint32_t(-1) raises, uint32_t(2 ** 32 - 1) and int64_t(-(2 ** 63)) return
C29_WitnessNegative ==
    /\ op.fn = "_ffi_cast" /\ op.type_name = "uint32_t" /\ op.value = BigOf(-1)
    /\ res.status = "raised"

C29_WitnessMax ==
    /\ op.fn = "_ffi_cast" /\ op.type_name = "uint32_t"
    /\ op.value = [neg |-> FALSE, mag |-> <<65535, 65535>>]
    /\ res = Returned(CData("uint32_t", op.value))

C29_WitnessMin ==
    /\ op.fn = "_ffi_cast" /\ op.type_name = "int64_t"
    /\ op.value = [neg |-> TRUE, mag |-> <<0, 0, 0, 32768>>]
    /\ res = Returned(CData("int64_t", op.value))

(***************************************************************************)
(* The listing of _libzfs_core.py.  lzc_list opens a pipe, gives its write *)
(* end to the native lzc_list and returns both ends; the generator _list   *)
(* reads the records from the read end and yields a dictionary for each.   *)
(* A call is [fn, enc, ret, records]: the function called, whether the     *)
(* encoding of the options fails, the status of the native call, and what  *)
(* each read of a record finds.                                            *)
(***************************************************************************)
ESRCH == 3

\* what a turn of the loop of _list finds: nothing more to read, a record
\* with err == ESRCH, with another err, with size 0, with data that
\* nvlist_unpack refuses, with data that is unpacked
RecordKinds == {"eof", "esrch", "error", "empty", "unpack", "data"}

\* os.pipe() and os.close(d) on the descriptor table of the process
OsPipe(l) == [l EXCEPT !.open = @ \cup Descriptors]
OsClose(l, d) == [l EXCEPT !.open = @ \ {d}, !.closes[d] = @ + 1]

\* errors.lzc_list_translate_error(ret, name, options): nothing for 0, an
\* exception of exceptions.py for every other status
lzc_list_translate_error(ret) ==
    IF ret = 0 THEN NoExc ELSE ZFSException("ZFSError", <<ret>>)

\* lzc_list(name, options): [lst, exc, fd, other_fd], the pair returned being
\* (fd, other_fd), NoName for None
lzc_list(call, l) ==
    LET p == OsPipe(l)
        none == [lst |-> p, exc |-> NoExc, fd |-> NoName, other_fd |-> NoName]
    IN  IF call.enc # 0 THEN [none EXCEPT !.exc = MemoryError("nvlist_alloc failed")]
        ELSE IF call.ret = ESRCH THEN none
        ELSE IF lzc_list_translate_error(call.ret) # NoExc
        THEN [none EXCEPT !.exc = lzc_list_translate_error(call.ret)]
        ELSE [none EXCEPT !.fd = "rfd", !.other_fd = "wfd"]

\* "finally: os.close(other_fd); os.close(fd)"
ListFinally(l) == OsClose(OsClose(l, l.other_fd), l.fd)

\* one turn of the loop of _list, up to the yield or out of the generator
ListStep(l, records) ==
    LET i == l.n + 1
        kind == IF i > Len(records) THEN "eof" ELSE records[i]
    IN  CASE kind \in {"eof", "esrch", "empty"} ->
                 [ListFinally(l) EXCEPT !.pc = "done"]
          [] kind = "error" ->
                 [ListFinally(l) EXCEPT !.pc = "raised",
                                        !.exc = lzc_list_translate_error(ENOENT)]
          [] kind = "unpack" ->
                 [ListFinally(l) EXCEPT !.pc = "raised",
                                        !.exc = ZFSException("ZFSGenericError", <<EINVAL>>)]
          [] kind = "data" -> [l EXCEPT !.pc = "yielded", !.n = i]

ListingCalls ==
    {[fn |-> "lzc_list", enc |-> enc, ret |-> ret, records |-> <<>>] :
        enc \in {0, 12}, ret \in {0, ESRCH, ENOENT}}
    \cup {[fn |-> "_list", enc |-> enc, ret |-> ret, records |-> records] :
             enc \in {0, 12}, ret \in {0, ESRCH, ENOENT},
             records \in SeqsUpTo(RecordKinds, MaxRecords)}

\* one listing in each behaviour
ListInit ==
    /\ Quiet
    /\ op \in ListingCalls
    /\ res = Pending
    /\ lst = NoListing

\* a caller calls lzc_list itself
LzcList ==
    /\ op.fn = "lzc_list" /\ lst.pc = "idle"
    /\ LET r == lzc_list(op, lst)
       IN  lst' = [r.lst EXCEPT !.pc = IF r.exc # NoExc THEN "raised" ELSE "returned",
                                !.exc = r.exc, !.fd = r.fd, !.other_fd = r.other_fd]
    /\ UNCHANGED <<op, res, codecVars, initVars>>

\* that caller is done with the pair: it has read the listing and closes both
\* descriptors, as the docstring of lzc_list asks; with (None, None) it has
\* nothing to close
CallerCloses ==
    /\ op.fn = "lzc_list" /\ lst.pc = "returned"
    /\ lst' = IF lst.fd = NoName THEN [lst EXCEPT !.pc = "done"]
              ELSE [OsClose(OsClose(lst, lst.fd), lst.other_fd) EXCEPT !.pc = "done"]
    /\ UNCHANGED <<op, res, codecVars, initVars>>

\* the first next() on the generator _list(name): lzc_list, then the loop
ListStart ==
    /\ op.fn = "_list" /\ lst.pc = "idle"
    /\ LET r == lzc_list(op, lst)
           l == [r.lst EXCEPT !.fd = r.fd, !.other_fd = r.other_fd]
       IN  lst' = IF r.exc # NoExc THEN [l EXCEPT !.pc = "raised", !.exc = r.exc]
                  ELSE IF r.fd = NoName THEN [l EXCEPT !.pc = "done"]
                  ELSE ListStep(l, op.records)
    /\ UNCHANGED <<op, res, codecVars, initVars>>

\* a later next(): the generator goes on after its yield
ListNext ==
    /\ op.fn = "_list" /\ lst.pc = "yielded"
    /\ lst' = ListStep(lst, op.records)
    /\ UNCHANGED <<op, res, codecVars, initVars>>

\* the consumer drops the generator at a yield (lzc_get_props takes one
\* result): GeneratorExit is raised at the yield and the finally block runs
ListClose ==
    /\ op.fn = "_list" /\ lst.pc = "yielded"
    /\ lst' = [ListFinally(lst) EXCEPT !.pc = "done"]
    /\ UNCHANGED <<op, res, codecVars, initVars>>

ListingNext ==
    \/ LzcList
    \/ CallerCloses
    \/ ListStart
    \/ ListNext
    \/ ListClose

ListSpec == ListInit /\ [][ListingNext]_vars

(***************************************************************************)
(* C30: when a listing is over, however it ended (the listing read to its  *)
(* end, ESRCH from the native call, an error raised before or during the   *)
(* reading, data that cannot be unpacked, a record of size 0), none of the *)
(* two descriptors of the pipe is open and each has been closed once.      *)
(***************************************************************************)
ListingOver == lst.pc \in {"done", "raised"}

C30_NoDescriptorLeak ==
    ListingOver =>
        /\ lst.open = {}
        /\ \A d \in Descriptors : lst.closes[d] = 1

\* the part that holds: once lzc_list has returned the descriptors, every way
\* out closes each of them once
C30_ReturnedDescriptorsClosed ==
    ListingOver /\ lst.fd # NoName =>
        /\ lst.open = {}
        /\ \A d \in Descriptors : lst.closes[d] = 1

\* _list on a dataset for which the native call reports ESRCH: the generator
\* has returned, both ends of the pipe are open and nobody holds them
C30_Witness ==
    /\ op.fn = "_list" /\ op.enc = 0 /\ op.ret = ESRCH
    /\ lst.pc = "done" /\ lst.fd = NoName
    /\ lst.open = Descriptors
    /\ \A d \in Descriptors : lst.closes[d] = 0

\* the listing read to the end of the pipe after two results
C30_WitnessRead ==
    /\ op.fn = "_list" /\ op.records = <<"data", "data">>
    /\ lst.pc = "done" /\ lst.n = 2 /\ lst.open = {}
    /\ \A d \in Descriptors : lst.closes[d] = 1

====
